---------------------------- MODULE MCReplySender ----------------------------
(* TLC instances of ReplySender, and what a comment says of its end.       *)
EXTENDS ReplySender

\* listener/udp.rs:78, "Drop the table (and its Sender) so the reply task drains
\* and exits": the sender task does not end with replies in its queue.
DrainsBeforeExit == [][spc # "done" /\ spc' = "done" => queue = <<>>]_vars
=============================================================================
