------------------------------- MODULE MCPort -------------------------------
EXTENDS Port

CONSTANTS idle, worker

FirstTasks == <<idle>>

=============================================================================
