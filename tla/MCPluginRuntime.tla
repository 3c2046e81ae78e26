--------------------------- MODULE MCPluginRuntime ---------------------------
(* Settings for TLC: two servers, a malformed URL, and one choice without writes. *)
EXTENDS PluginRuntime

CONSTANTS u1, u2, malformed

MCUrls == {u1, u2, malformed}
MCSettings ==
    {[url |-> u, writes |-> TRUE] : u \in MCUrls} \cup {[url |-> u1, writes |-> FALSE]}
MCFirst == {[url |-> u1, writes |-> TRUE]}
=============================================================================
