--------------------------- MODULE LifecycleModal ---------------------------
(***************************************************************************)
(* components/LifecycleModal.tsx and the lifecycle handlers of             *)
(* bucket_handler.go.  A rule is for a prefix or for the whole bucket; its *)
(* id and its status travel like its days and are left out.  The dialog is *)
(* mounted when it is opened and gone when it is closed.                   *)
(***************************************************************************)
EXTENDS Browser

CONSTANT
    MaxRules  \* bound: rules of a bucket

ASSUME LifecycleAssumption == MaxRules \in Nat \ {0}

VARIABLES
    lc,     \* the dialog's state and the bucket it is for
    config  \* at the storage service: the rules of every bucket

Days == {0, 7}
Rule == [prefix : {"", "p/"}, days : Days, noncurrent : Days]
NewRule == [prefix |-> "", days |-> 0, noncurrent |-> 7]

\* read, got and touched are history: how the loading ended, what the service answered,
\* and whether the form was changed by hand.
FreshLifecycle(b) ==
    [bucket |-> b, loading |-> b # None, saving |-> FALSE, enabled |-> FALSE, rules |-> <<>>,
     read |-> "none", got |-> <<>>, touched |-> FALSE]

-----------------------------------------------------------------------------
(* The handlers.  Without rules the service answers NoSuchLifecycleConfiguration, which *)
(* is an error like any other.                                                          *)

GetLifecycle(n) ==
    /\ Arriving(n, "lifecycle")
    /\ config[calls[n].arg] # <<>>
    /\ Served(n, config[calls[n].arg]) /\ UNCHANGED config

UpdateLifecycle(n) ==
    /\ Arriving(n, "putLifecycle") /\ ByAdmin(n)
    /\ config' = [config EXCEPT ![calls[n].arg.bucket] = calls[n].arg.rules]
    /\ Served(n, "ok")

DeleteLifecycle(n) ==
    /\ Arriving(n, "dropLifecycle") /\ ByAdmin(n)
    /\ config' = [config EXCEPT ![calls[n].arg.bucket] = <<>>]
    /\ Served(n, "ok")

-----------------------------------------------------------------------------
(* The dialog *)

LcCalls == {"putLifecycle", "dropLifecycle"}
LcIdle == lc.bucket # None /\ ~lc.loading
LcThen(ui) == lc' = ui /\ UNCHANGED <<config, acts>>
LcDo(ui) == Act /\ lc' = ui /\ UNCHANGED config

\* The answer as the form has it.  The prefix lies under Filter and is not found.
ReadRule(rule) == [rule EXCEPT !.prefix = ""]

\* A rule without NoncurrentVersionExpiration throws.
LifecycleLoaded(n) ==
    LET answer == calls[n].answer
        legible == \A i \in DOMAIN answer : answer[i].noncurrent # 0
    IN  /\ Answered(n, "lifecycle")
        /\ LcThen([lc EXCEPT !.loading = FALSE, !.enabled = legible, !.got = answer,
                             !.rules = IF legible THEN [i \in DOMAIN answer |-> ReadRule(answer[i])] ELSE <<>>,
                             !.read = IF legible THEN "ok" ELSE "failed"])
        /\ Forget(n)

LifecycleFails(n) ==
    /\ Failing(n, {"lifecycle"})
    /\ LcThen([lc EXCEPT !.loading = FALSE, !.enabled = FALSE, !.rules = <<>>, !.read = "failed"])
    /\ Forget(n)

\* The checkbox, the button "Adicionar Regra", the bins and the fields.
LcEdit(enabled, rules) ==
    LcDo([lc EXCEPT !.enabled = enabled, !.rules = rules, !.touched = TRUE]) /\ Quiet

Toggle == LcIdle /\ LcEdit(~lc.enabled, IF lc.enabled THEN <<>> ELSE lc.rules)
AddRule == LcIdle /\ lc.enabled /\ Len(lc.rules) < MaxRules /\ LcEdit(TRUE, Append(lc.rules, NewRule))

RemoveRule(i) ==
    /\ LcIdle /\ i \in DOMAIN lc.rules
    /\ LET rest == SubSeq(lc.rules, 1, i - 1) \o SubSeq(lc.rules, i + 1, Len(lc.rules))
       IN  LcEdit(lc.enabled /\ rest # <<>>, rest)

UpdateRule(i, rule) ==
    /\ LcIdle /\ i \in DOMAIN lc.rules
    /\ \E field \in DOMAIN rule : rule = [lc.rules[i] EXCEPT ![field] = rule[field]]
    /\ rule # lc.rules[i]
    /\ LcEdit(lc.enabled, [lc.rules EXCEPT ![i] = rule])

\* The button Salvar.  Mutant: it is enabled while the rules are being loaded.
SaveAnyTime == lc.bucket # None /\ ~lc.saving
CanSave == LcIdle /\ ~lc.saving

SaveLifecycle ==
    LET write == lc.enabled /\ lc.rules # <<>>
    IN  /\ CanSave
        /\ LcDo([lc EXCEPT !.saving = TRUE])
        /\ Send(IF write THEN "putLifecycle" ELSE "dropLifecycle",
                [bucket |-> lc.bucket, rules |-> lc.rules, form |-> lc, closed |-> FALSE])

\* Cancelar or Escape.  A loading dies with the dialog, a saving goes on and closes, when
\* it has succeeded, the lifecycle dialog that is open then.
CloseLifecycle ==
    /\ lc.bucket # None
    /\ LcDo(FreshLifecycle(None))
    /\ calls' = [n \in Slot |->
                   CASE calls[n].kind = "lifecycle" -> NoCall
                     [] calls[n].kind \in LcCalls   -> [calls[n] EXCEPT !.arg.closed = TRUE]
                     [] OTHER                       -> calls[n]]

LifecycleSaved(n) ==
    /\ \E kind \in LcCalls : Answered(n, kind)
    /\ LcThen(FreshLifecycle(None))
    /\ calls' = [m \in Slot |->
                   IF m = n \/ calls[m].kind = "lifecycle" THEN NoCall
                   ELSE IF calls[m].kind \in LcCalls THEN [calls[m] EXCEPT !.arg.closed = TRUE]
                   ELSE calls[m]]

\* An alert; the rules of the form stay.
SaveFails(n) ==
    /\ Failing(n, LcCalls)
    /\ LcThen(IF calls[n].arg.closed THEN lc ELSE [lc EXCEPT !.saving = FALSE])
    /\ Forget(n)

-----------------------------------------------------------------------------
LifecycleServer(n) == GetLifecycle(n) \/ UpdateLifecycle(n) \/ DeleteLifecycle(n)
LifecycleUser ==
    \/ Toggle \/ AddRule \/ SaveLifecycle \/ CloseLifecycle
    \/ \E i \in 1 .. MaxRules : RemoveRule(i) \/ \E rule \in Rule : UpdateRule(i, rule)
LifecycleFailing(n) == LifecycleFails(n) \/ SaveFails(n)
LifecycleAnswer(n) == LifecycleLoaded(n) \/ LifecycleSaved(n) \/ LifecycleFailing(n)
=============================================================================
