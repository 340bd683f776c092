--------------------------- MODULE PacketThreads ----------------------------
(* The packet threads of the host, each of which runs the plugin's handlers    *)
(* for streams of its own.                                                     *)
CONSTANT Threads
=============================================================================
