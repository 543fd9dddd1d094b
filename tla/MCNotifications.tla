--------------------------- MODULE MCNotifications ---------------------------
\* Notifications for TLC; no symmetry, since a liveness property is checked.
EXTENDS Notifications

=============================================================================
