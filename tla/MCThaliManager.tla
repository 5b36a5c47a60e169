--------------------------- MODULE MCThaliManager ---------------------------
(* Instances of ThaliManager. *)
EXTENDS ThaliManager, FiniteSets

\* An order of steps that the event loop keeps: promise callbacks that are due
\* run before anything comes from the native layer.
Due == \/ queue # <<>> /\ ~running
       \/ calls # <<>> /\ step = "idle"
       \/ answer # "none" \/ afterStart > 0 \/ awaits = "pool"
Events == Cardinality({i \in 1..Len(queue) : queue[i] = Call("start", "event")})
Outside == \/ radio' # radio \/ Events' > Events
           \/ step # "idle" /\ step' # step
CallbacksFirst == Due => ~Outside
=============================================================================
