---------------------------- MODULE VersionModal ----------------------------
(***************************************************************************)
(* components/ObjectVersionModal.tsx and the two handlers it calls.  A     *)
(* bucket holds one object, with a history of versions and delete markers. *)
(***************************************************************************)
EXTENDS Browser

CONSTANT
    MaxVersions  \* bound: versions and markers of an object

ASSUME VersionAssumption == MaxVersions \in Nat

VARIABLES
    vm,      \* the dialog's state
    objects  \* at the storage service: what every bucket holds of its object, the newest first

Version == 1 .. MaxVersions
Stored == [id : Version, marker : BOOLEAN]
\* of is the bucket, null when the dialog is closed; alerted is history: the versions
\* that the dialog said it had deleted.
FreshVersions(b) ==
    [of |-> b, versions |-> <<>>, loading |-> b # None, error |-> FALSE, deleting |-> None,
     alerted |-> {}]

-----------------------------------------------------------------------------
\* Versions are listed without the markers.
Listed(history) == SelectSeq(history, LAMBDA v : ~v.marker)

ListObjectVersions(n) ==
    /\ Arriving(n, "versions")
    /\ Served(n, Listed(objects[calls[n].arg.bucket]))
    /\ UNCHANGED objects

\* The call names the object and not the version: the service puts a marker on top.
DeleteObject(n) ==
    LET b == calls[n].arg.bucket
    IN  /\ Arriving(n, "deleteObject") /\ ByAdmin(n) /\ Len(objects[b]) < MaxVersions
        /\ objects' = [objects EXCEPT ![b] = <<[id |-> Len(@) + 1, marker |-> TRUE]>> \o @]
        /\ Served(n, "ok")

-----------------------------------------------------------------------------
VmIdle == vm.of # None /\ ~vm.loading
VmDo(ui) == Act /\ vm' = ui /\ UNCHANGED objects
VmThen(ui) == vm' = ui /\ UNCHANGED <<objects, acts>>
VmLoading(ui) == [ui EXCEPT !.loading = TRUE, !.error = FALSE]
\* then is "delete" when the loading ends a deletion.
VmQuery(then) == [bucket |-> vm.of, then |-> then]

RetryVersions == VmIdle /\ vm.error /\ VmDo(VmLoading(vm)) /\ Send("versions", VmQuery("none"))

DeleteVersion(i) ==
    /\ VmIdle /\ ~vm.error /\ user = "admin"
    /\ i \in DOMAIN vm.versions /\ vm.versions[i].id # vm.deleting
    /\ VmDo([vm EXCEPT !.deleting = vm.versions[i].id])
    /\ Send("deleteObject", [bucket |-> vm.of, id |-> vm.versions[i].id])

VersionDeletedOk(n) ==
    /\ Answered(n, "deleteObject")
    /\ VmThen(VmLoading([vm EXCEPT !.alerted = @ \union {calls[n].arg.id}]))
    /\ Put(n, Call("versions", VmQuery("delete")))

VersionDeleteFails(n) ==
    /\ Failing(n, {"deleteObject"})
    /\ VmThen([vm EXCEPT !.deleting = None])
    /\ Forget(n)

\* The finally block of a deletion, after the loading that follows it.
VmSettled(ui, n) == IF calls[n].arg.then = "delete" THEN [ui EXCEPT !.deleting = None] ELSE ui

VersionsLoaded(n) ==
    /\ Answered(n, "versions")
    /\ VmThen(VmSettled([vm EXCEPT !.versions = calls[n].answer, !.loading = FALSE], n))
    /\ Forget(n)

VersionsFail(n) ==
    /\ Failing(n, {"versions"})
    /\ VmThen(VmSettled([vm EXCEPT !.error = TRUE, !.loading = FALSE], n))
    /\ Forget(n)

\* A deletion under way still reaches the service; nobody reads its answer.
CloseVersions ==
    /\ vm.of # None
    /\ VmDo(FreshVersions(None))
    /\ calls' = [n \in Slot |->
                   CASE calls[n].kind = "versions" -> NoCall
                     [] calls[n].kind = "deleteObject" -> Left(calls[n])
                     [] OTHER -> calls[n]]

-----------------------------------------------------------------------------
VersionServer(n) == ListObjectVersions(n) \/ DeleteObject(n)
VersionUser == RetryVersions \/ CloseVersions \/ \E i \in Version : DeleteVersion(i)
VersionFails(n) == VersionDeleteFails(n) \/ VersionsFail(n)
VersionAnswer(n) == VersionDeletedOk(n) \/ VersionsLoaded(n) \/ VersionFails(n)
=============================================================================
