-------------------------- MODULE MCObjectIndexer --------------------------
\* The instance of ObjectIndexer that TLC explores.
EXTENDS ObjectIndexer

\* No version; an object; what is left of a deleted object, and with its object; an
\* object uploaded again over a delete marker.
SomeVersions == {<<>>, <<1>>, <<Marker>>, <<Marker, 1>>, <<2, Marker, 1>>}
=============================================================================
