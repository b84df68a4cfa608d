---------------------------- MODULE MCDashboard -----------------------------
(* Dashboard with a few messages, one switch and one broken connection.    *)
EXTENDS Dashboard
=============================================================================
