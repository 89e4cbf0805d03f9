-------------------------- MODULE MCNotifications --------------------------
(* Notifications for TLC: two people and two topics, for anybody each.     *)
EXTENDS Notifications

CONSTANTS ann, ben, edited, task

=============================================================================
