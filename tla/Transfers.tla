----------------------------- MODULE Transfers ------------------------------
(***************************************************************************)
(* File transfers over SFTP (mcp/tools_transfer.go, mcp/transfer_core.go,  *)
(* commands/transfer.go): upload and download, in the foreground or as     *)
(* background jobs, through a .part file beside the destination, with      *)
(* resumption and a checksum.                                              *)
(*                                                                         *)
(* All transfers of an instance have one source and one destination.  A    *)
(* file is a sequence of blocks; a block is the version of the source it   *)
(* was read from.  Its checksum stands for its content.  A file that was   *)
(* created by a transfer is named after it, because it goes on being       *)
(* written through an open handle when it gets another name.               *)
(***************************************************************************)
EXTENDS Naturals, Sequences

CONSTANTS Transfers,
          Versions,  \* the contents the source takes, one after the other
          Nothing, Old, \* no file, and the file at the destination before
          MaxEdits   \* bound on the edits of the source

\* want is the checksum that the caller expects, or Nothing.
Plan == [kind : {"upload", "download"}, resume : BOOLEAN,
         want : {Versions[i] : i \in DOMAIN Versions} \cup {Nothing}, cloud : BOOLEAN]

ASSUME TransferAssumption ==
    /\ Versions \in Seq(Seq(Nat \ {0})) /\ Versions # << >> /\ MaxEdits \in Nat
    /\ Old \notin Transfers /\ Nothing \notin Transfers

VARIABLES
    source,  \* the version that the source path holds
    name,    \* the file at the destination and at its .part name
    file,    \* file[t]: the content of the file that t created
    trans,   \* the transfers
    edits

transferVars == <<source, name, file, trans, edits>>

\* A content of which nothing is known; no version has a block 0.
Torn == <<0>>

Steps == {"idle", "dial", "stat", "open", "hash", "part", "copy", "closed", "verified",
          "removed", "completed", "failed"}

\* stat is the version whose size was taken, read the one that the open handle
\* reads, sum the checksum to be reported, out the file that is being written,
\* at the position in it, append whether writes go to its end, and alone
\* whether no other transfer used or moved that file meanwhile (for the
\* properties only).
Transfer == [step : Steps, plan : Plan, stat : Nat, read : Nat,
             sum : Seq(Nat) \cup {Nothing},
             out : Transfers \cup {Nothing}, at : Nat, append : BOOLEAN, alone : BOOLEAN]

File == Transfers \cup {Nothing}
TransferTypeOK ==
    /\ source \in DOMAIN Versions
    /\ name \in [dst : File \cup {Old}, part : File]
    /\ file \in [Transfers -> Seq(Nat)]
    /\ trans \in [Transfers -> Transfer]
    /\ edits \in 0..MaxEdits

NewTransfer(p) == [step |-> "idle", plan |-> p, stat |-> 1, read |-> 1, sum |-> Nothing,
                   out |-> Nothing, at |-> 0, append |-> FALSE, alone |-> TRUE]

\* The callers have chosen what to transfer; some transfers failed earlier.
TransferInit(over, plans, editsDone) ==
    /\ source = 1
    /\ name \in [dst : {Nothing, Old}, part : {Nothing}]
    /\ file = [t \in Transfers |-> << >>]
    /\ \E p \in [Transfers -> plans] :
         trans = [t \in Transfers |->
                    [NewTransfer(p[t]) EXCEPT !.step = IF t \in over THEN "failed" ELSE "idle"]]
    /\ edits = editsDone

-----------------------------------------------------------------------------
Running(t) == trans[t].step \notin {"idle", "completed", "failed"}
Set(t, r) == trans' = [trans EXCEPT ![t] = r]
Goto(t, s) == trans' = [trans EXCEPT ![t].step = s]
Size(v) == Len(Versions[v])

\* upload, download or transfer_start is called; the arguments are complete.
Start(t) ==
    /\ trans[t].step = "idle"
    /\ Goto(t, "dial")
    /\ UNCHANGED <<source, name, file, edits>>

\* The connection and the SFTP session are open.
Connected(t) ==
    /\ trans[t].step = "dial"
    /\ Goto(t, "stat")
    /\ UNCHANGED <<source, name, file, edits>>

\* A download takes the size of the path before it opens it; an upload takes
\* it of the file it has opened.
Stat(t) ==
    /\ trans[t].step = "stat"
    /\ IF trans[t].plan.kind = "download"
       THEN Set(t, [trans[t] EXCEPT !.step = "open", !.stat = source])
       ELSE Set(t, [trans[t] EXCEPT !.step = "hash", !.stat = source, !.read = source])
    /\ UNCHANGED <<source, name, file, edits>>

OpenSource(t) ==
    /\ trans[t].step = "open"
    /\ Set(t, [trans[t] EXCEPT !.step = "part", !.read = source])
    /\ UNCHANGED <<source, name, file, edits>>

\* An upload hashes the path, which may hold another file by now.
HashSource(t) ==
    /\ trans[t].step = "hash"
    /\ trans[t].plan.want \in {Nothing, Versions[source]}
    /\ Set(t, [trans[t] EXCEPT !.step = "part", !.sum = Versions[source]])
    /\ UNCHANGED <<source, name, file, edits>>

\* How much of a .part file is taken as done.
Offset(t) ==
    LET have == IF name.part = Nothing THEN 0 ELSE Len(file[name.part])
    IN  IF trans[t].plan.resume /\ have <= Size(trans[t].stat) THEN have ELSE 0

\* The .part file is appended to, or emptied, or made.
OpenPart(t) ==
    LET out == IF name.part = Nothing THEN t ELSE name.part
        others == {u \in Transfers : Running(u) /\ trans[u].out = out}
    IN  /\ trans[t].step = "part"
        /\ name' = [name EXCEPT !.part = out]
        /\ file' = [file EXCEPT ![out] = IF Offset(t) = 0 THEN << >> ELSE @]
        /\ trans' = [u \in Transfers |->
             IF u = t THEN [trans[t] EXCEPT !.step = "copy", !.out = out, !.at = Offset(t),
                                            !.append = Offset(t) > 0, !.alone = others = {}]
             ELSE IF trans[u].out = out /\ Running(u) THEN [trans[u] EXCEPT !.alone = FALSE]
             ELSE trans[u]]
        /\ UNCHANGED <<source, edits>>

\* One block. A write that is neither at the end nor appended leaves a file
\* of which nothing is known.
CopyBlock(t) ==
    LET r == trans[t]
    IN  /\ r.step = "copy" /\ r.at < Size(r.read)
        /\ file' = [file EXCEPT ![r.out] =
             IF @ = Torn \/ (~r.append /\ r.at # Len(@)) THEN Torn
             ELSE Append(@, Versions[r.read][r.at + 1])]
        /\ Set(t, [r EXCEPT !.at = @ + 1])
        /\ UNCHANGED <<source, name, edits>>

\* The source is at its end, and the file is closed.
CopyEnds(t) ==
    /\ trans[t].step = "copy" /\ trans[t].at >= Size(trans[t].read)
    /\ Goto(t, IF trans[t].plan.kind = "upload" THEN "verified" ELSE "closed")
    /\ UNCHANGED <<source, name, file, edits>>

\* A download hashes what is at the .part name and compares.
PartSum == IF name.part = Nothing THEN Nothing ELSE file[name.part]
\* Mutation of Verify: the checksum is reported and not compared.
VerifyNothing(t) ==
    /\ trans[t].step = "closed" /\ name.part # Nothing
    /\ Set(t, [trans[t] EXCEPT !.step = "verified", !.sum = PartSum])
    /\ UNCHANGED <<source, name, file, edits>>
Verify(t) ==
    /\ trans[t].step = "closed" /\ name.part # Nothing
    /\ trans[t].plan.want \in {Nothing, PartSum}
    /\ Set(t, [trans[t] EXCEPT !.step = "verified", !.sum = PartSum])
    /\ UNCHANGED <<source, name, file, edits>>

\* The .part file gets the name of the destination. The local file system
\* replaces a file of that name; an SFTP server may refuse to. The name says
\* which file moves, whoever has written it.
Replace(t) ==
    /\ name.part # Nothing
    /\ name' = [dst |-> name.part, part |-> Nothing]
    /\ trans' = [u \in Transfers |->
         IF u = t THEN [trans[t] EXCEPT !.step = "completed"]
         ELSE IF trans[u].out = name.part /\ Running(u) THEN [trans[u] EXCEPT !.alone = FALSE]
         ELSE trans[u]]
    /\ UNCHANGED <<source, file, edits>>
Rename(t) == trans[t].step = "verified" /\ Replace(t)

\* An upload whose rename is refused removes the destination ...
RemoveOld(t) ==
    /\ trans[t].step = "verified" /\ trans[t].plan.kind = "upload"
    /\ name' = [name EXCEPT !.dst = Nothing]
    /\ Goto(t, "removed")
    /\ UNCHANGED <<source, file, edits>>
\* ... and renames again.
RenameAgain(t) == trans[t].step = "removed" /\ Replace(t)

\* Any step may fail, the context may end, and a checksum may differ: the
\* .part file is left as it is.
Fails(t) ==
    /\ Running(t)
    /\ Goto(t, "failed")
    /\ UNCHANGED <<source, name, file, edits>>

\* The source is replaced, or written over while it is being read.
EditSource ==
    /\ edits < MaxEdits /\ source < Len(Versions)
    /\ source' = source + 1 /\ edits' = edits + 1
    /\ \/ UNCHANGED trans
       \/ trans' = [t \in Transfers |->
            IF Running(t) THEN [trans[t] EXCEPT !.read = source'] ELSE trans[t]]
    /\ UNCHANGED <<name, file>>

Copying(t) ==
    \/ Stat(t) \/ OpenSource(t) \/ HashSource(t) \/ OpenPart(t) \/ CopyBlock(t) \/ CopyEnds(t)
    \/ Verify(t) \/ Rename(t) \/ RemoveOld(t) \/ RenameAgain(t)

-----------------------------------------------------------------------------
(* Properties.                                                             *)

\* What t puts in place of a file: with a checksum, a download places exactly
\* the content of that checksum; without resumption any transfer places exactly
\* the version of its source, when that did not change.
Whole(t, content) ==
    /\ trans[t].plan.kind = "download" /\ trans[t].plan.want # Nothing => content = trans[t].plan.want
    /\ ~trans[t].plan.resume /\ edits = 0 => content = Versions[source]

\* The destination changes only from one whole file to another: what a transfer
\* puts in its place is whole, and an upload that removes it to rename again
\* has its complete copy beside it, unless another transfer used the same
\* .part file meanwhile (copySeekableToAtomicFile, uploadLocalFile).
DestinationWhole ==
    [][\A t \in Transfers :
         name'.dst # name.dst /\ trans'[t].step # trans[t].step /\ trans[t].alone
            => Whole(t, file[IF name'.dst = Nothing THEN name.part ELSE name'.dst])]_transferVars
=============================================================================
