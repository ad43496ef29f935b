---------------------------- MODULE LevelTriggered ----------------------------
(***************************************************************************)
(* What a level-triggered controller promises to those who look at its     *)
(* objects from outside.  The objects may be wrong only while the          *)
(* controller has something due: a disturbance makes work due at once, the *)
(* controller works through any number of wrong intermediate states, and   *)
(* it comes to rest only when the objects are what the spec asks for.      *)
(***************************************************************************)
VARIABLES
  due,   \* a request is queued or running, or an event on its way will queue one
  right  \* the objects are what the spec asks for

levelVars == <<due, right>>

Init == due = FALSE /\ right = TRUE

\* Someone changes the spec or an object.
Disturb == due' = TRUE /\ right' \in BOOLEAN

\* The controller acts but is not done.
Work == due /\ due' = TRUE /\ right' \in BOOLEAN

Finish == due /\ due' = FALSE /\ right' = TRUE

Next == Disturb \/ Work \/ Finish

Spec == Init /\ [][Next]_levelVars

\* The controller does not work for ever.
FairSpec == Spec /\ []<>(~due)
==============================================================================
