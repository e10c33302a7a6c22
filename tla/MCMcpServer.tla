---------------------------- MODULE MCMcpServer -----------------------------
(* Two links and one transfer through the vault; two transfers without it. *)
EXTENDS McpServer

CONSTANTS t1, t2

MCLinks == {1, 2}
MCTransfers == {t1, t2}
MCVersions == << <<1, 1>>, <<2>> >>

Of(kind, resume, want, cloud) == [kind |-> kind, resume |-> resume, want |-> want, cloud |-> cloud]

MCScenes ==
    { [links |-> {1, 2}, transfers |-> {t1}, changes |-> 2, edits |-> 0,
       plans |-> {Of("upload", FALSE, Nothing, TRUE)}],
      [links |-> {}, transfers |-> {t1, t2}, changes |-> 0, edits |-> 1,
       plans |-> {Of(k, r, Nothing, FALSE) : k \in {"upload"}, r \in BOOLEAN}
                 \cup {Of("download", r, w, FALSE) : r \in BOOLEAN, w \in {Nothing, <<1, 1>>}}] }
=============================================================================
