----------------------- MODULE NotificationManagerMC -----------------------
(* Instances of NotificationManager for TLC: every verdict a filter can have and *)
(* every kind of notification.                                                   *)
EXTENDS NotificationManager

AllFilters == [toast : BOOLEAN, save : BOOLEAN, allowed : BOOLEAN]
AllClasses == [tracked : BOOLEAN, actions : BOOLEAN]

\* Kept is the SelectSeq of the standard module.
ASSUME KeptIsSelectSeq ==
    \A n \in 0..4 : \A s \in [1..n -> 0..2] :
        Kept(s, LAMBDA x : x > 0) = SelectSeq(s, LAMBDA x : x > 0)
=============================================================================
