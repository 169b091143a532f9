-------------------------- MODULE MCSocialPublisher --------------------------
(* Small instances of social publishing for TLC.                             *)
EXTENDS SocialPublisher

\* A container, its processing, and the step that publishes it.
Container == <<"mutate", "await", "mutate">>
\* A post that the platform processes after the last changing step.
Processed == <<"mutate", "await">>
=============================================================================
