-------------------------- MODULE MC_RecordingUpload --------------------------
(* TLC instance of RecordingUpload: a recording the backend refuses beside one   *)
(* that it takes, and cron runs that overlap.                                    *)
EXTENDS RecordingUpload
==============================================================================
