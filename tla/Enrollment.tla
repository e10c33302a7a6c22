----------------------------- MODULE Enrollment -----------------------------
(***************************************************************************)
(* Enrolling a host: the commands that make a key, install it on the host, *)
(* prove that it logs in and write the record of an alias (pair, pair      *)
(* --no-callback, gen-key, the gen_key tool, copy-id, provision), run at   *)
(* the same time on one controller, with the scripts that users run on the *)
(* hosts and an editor of the configuration file.                          *)
(*                                                                         *)
(* All commands are about one alias. A run generates at most one key,      *)
(* which is named after the run. The configuration file, whose updates are *)
(* atomic (ConfigFile), is one step; so is an update of the local store    *)
(* (LocalStore). Key files are not locked: each inspection and each write  *)
(* is a step. authorized_keys is a set of lines: duplicates are the same   *)
(* key. copy-id's pass that drops them is every command of the remote      *)
(* shell: it opens the temporary file, awk reads and writes, mv, and the   *)
(* trap at the end; awk reads such a small file at once, and writes it at  *)
(* once.                                                                   *)
(***************************************************************************)
EXTENDS Naturals

CONSTANTS Runs,       \* invocations of a command, and the keys they generate
          NoKey,      \* no key
          Paths,      \* key files
          Targets,    \* hosts, a host with its port
          Users,      \* login names
          NoUser,     \* no login name
          Account,    \* what whoami prints after a login as a user
          Places,     \* <<host, user>>: where somebody may run a pairing script
          Windows,    \* hosts that run Windows
          Admins,     \* users who are administrators
          Includes,   \* hosts whose sshd_config includes the drop-in directory
          Scenarios,  \* what the runs do: a set of functions of the runs
          MaxTries,   \* callbacks a script tries before it gives up
          MaxRecordEdits \* bound: edits of the record by other commands

Ops == {"pair", "pairNoCallback", "genKey", "handleGenKey", "copyID", "provision"}
Protections == {"auto", "own", "plain"}  \* passphrase: made for the device, of the user, none
Plan == [op : Ops, path : Paths, host : Targets, user : Users \cup {NoUser},
         protect : Protections, harden : BOOLEAN, terminal : BOOLEAN]

ASSUME EnrollmentAssumption ==
    /\ NoKey \notin Runs /\ NoUser \notin Users /\ "none" \notin Paths
    /\ Account \in [Users -> Users]
    /\ Places \subseteq Targets \X Users
    /\ Windows \subseteq Targets /\ Admins \subseteq Users /\ Includes \subseteq Targets
    /\ Scenarios \subseteq [Runs -> Plan]
    /\ MaxTries \in Nat /\ MaxRecordEdits \in Nat

VARIABLES plan,    \* the scenario
          files,   \* the private and the public key file at each path
          store,   \* the local store: enabled, and the key saved for each path
          agent,   \* keys the SSH agent holds
          conf,    \* the record of the alias
          host,    \* authorized_keys, its temporary copy and sshd on each host
          run,     \* the runs
          hook,    \* the callback server of each run
          script,  \* the script of each run at each place
          awk,     \* the awk of each run: the lines it read, and what its output is now
          clashed, \* history: <<host, user>> whose file two runs rewrote at the same time
          recordEdits  \* edits so far

enrollmentVars == <<plan, files, store, agent, conf, host, run, hook, script, awk, clashed, recordEdits>>

-----------------------------------------------------------------------------
(* Values.                                                                 *)

Key == Runs \cup {NoKey}
User == Users \cup {NoUser}
NoRecord == [present |-> FALSE, host |-> "none", user |-> NoUser, auth |-> "none", path |-> "none"]
Record(h, u, a, p) == [present |-> TRUE, host |-> h, user |-> u, auth |-> a, path |-> p]
Record0(h, u) == Record(h, u, "password", "none")
NoProof == [host |-> "none", user |-> NoUser, path |-> "none"]
NoReport == <<"none", NoUser>>

PCs == {"start", "prepare", "inspect", "protect", "write", "writePub", "generated", "publish",
        "wait", "verify", "append", "dedupe", "awkReads", "awkWrites", "rename", "mvFailed", "exit", "test",
        "harden", "reload", "save", "grace", "done", "failed"}

\* managedAuth: the saved credential of a path signs while the file at the path
\* is still the one it was saved for; another file there is an error.
ManagedAuth(f, s, path) == s.key[path] = f[path].priv

\* loadKeySigner: a key without a passphrase signs by itself, an encrypted one
\* through the agent that holds it.
LoadKeySigner(f, ag, path) == plan[f[path].priv].protect = "plain" \/ f[path].priv \in ag

\* buildAuth: the local store decides if it has a credential for the path.
Usable(f, s, ag, path) ==
    /\ f[path].priv # NoKey
    /\ IF s.on /\ s.key[path] # NoKey THEN ManagedAuth(f, s, path) ELSE LoadKeySigner(f, ag, path)

\* agentAdd: the running agent gets the decrypted key, or there is none.
AgentAdd(ag, p, reachable) == IF reachable THEN ag \cup {p} ELSE ag
\* runSSHAddWithAskpass: the keychain's ssh-add, with the passphrase through a
\* pipe; it adds the key to the agent too, or times out.
SSHAddWithAskpass(ag, p, works) == IF works THEN ag \cup {p} ELSE ag
\* StoreAndLoad: the keychain where there is one, else the agent.
StoreAndLoad(ag, p, keychain, reachable) ==
    IF SSHAddWithAskpass(ag, p, keychain) # ag THEN SSHAddWithAskpass(ag, p, keychain)
    ELSE AgentAdd(ag, p, reachable)

\* An SSH login with the key at a path: Dial authenticates and the host has the
\* key in the user's authorized_keys.
LoginWith(h, u, path) ==
    /\ u # NoUser
    /\ Usable(files, store, agent, path)
    /\ files[path].priv \in host[h].auth[u]

\* An SSH login with the password, as CopyID makes it.
LoginByPassword(h) == ~ host[h].keyOnly

-----------------------------------------------------------------------------
(* Key files.                                                              *)

Exists(path) == files[path].priv # NoKey \/ files[path].pub # NoKey

\* RemoveGeneratedKeyPair: both files go, whoever reads them.
RemoveGeneratedKeyPair(path) == files' = [files EXCEPT ![path] = [priv |-> NoKey, pub |-> NoKey]]

\* generateED25519 refuses when either file exists.
Inspect(p) ==
    /\ run[p].pc = "inspect"
    /\ LET path == run[p].path
           managed == store.on /\ plan[p].protect # "plain"
       IN run' = [run EXCEPT ![p].pc = IF Exists(path) THEN "failed"
                                       ELSE IF managed THEN "protect" ELSE "write"]
    /\ UNCHANGED <<plan, files, store, agent, conf, host, hook, script, awk, clashed, recordEdits>>

\* RememberKeyFile, the protection callback: the store's entry for the path
\* becomes the new key. The store may be unavailable.
RememberKeyFile(p) ==
    /\ run[p].pc = "protect"
    /\ \/ /\ store' = [store EXCEPT !.key[run[p].path] = p]
          /\ run' = [run EXCEPT ![p].pc = "write"]
       \/ /\ run' = [run EXCEPT ![p].pc = "failed"]
          /\ UNCHANGED store
    /\ UNCHANGED <<plan, files, agent, conf, host, hook, script, awk, clashed, recordEdits>>

\* writeNewKeyFile of the private key: O_EXCL, and nothing stays of a failed write.
WritePrivate(p) ==
    /\ run[p].pc = "write"
    /\ LET path == run[p].path
       IN \/ /\ files[path].priv = NoKey
             /\ files' = [files EXCEPT ![path].priv = p]
             /\ run' = [run EXCEPT ![p].pc = "writePub"]
          \/ /\ run' = [run EXCEPT ![p].pc = "failed"]
             /\ UNCHANGED files
    /\ UNCHANGED <<plan, store, agent, conf, host, hook, script, awk, clashed, recordEdits>>

\* The public key, and the deferred removal of the private one when that fails.
WritePublic(p) ==
    /\ run[p].pc = "writePub"
    /\ LET path == run[p].path
       IN \/ /\ files[path].pub = NoKey
             /\ files' = [files EXCEPT ![path].pub = p]
             /\ run' = [run EXCEPT ![p].pc = "generated"]
          \/ /\ files' = [files EXCEPT ![path].priv = NoKey]
             /\ run' = [run EXCEPT ![p].pc = "failed"]
    /\ UNCHANGED <<plan, store, agent, conf, host, hook, script, awk, clashed, recordEdits>>

-----------------------------------------------------------------------------
(* pair: the candidate, the route back, the key and the target's command.  *)

\* ReadPassphraseFile, or Ensure for a passphrase made for the device: it may
\* not be there.
PassphraseAvailable(p) == IF plan[p].protect = "plain" THEN {TRUE} ELSE BOOLEAN
\* keyPassphrase: a passphrase made for the device needs the local store, which
\* Ensure creates; the user's own one is read from a file.
KeyPassphrase(p, ok) == store' = [store EXCEPT !.on = @ \/ (ok /\ plan[p].protect = "auto")]

\* pairCandidate: an existing record keeps its address, which an explicit
\* address must equal; a new one takes the address given.
PairCandidate(p) ==
    IF conf.present
    THEN conf.host = plan[p].host
    ELSE TRUE

\* DiscoverCallbackHost: the local address of the route to the host, if both
\* ends are private.
DiscoverCallbackHost == BOOLEAN
\* ValidateCallbackHost: an address given by the user is acceptable or not.
ValidateCallbackHost == BOOLEAN

\* runPairCommand up to the key: without a route back a terminal user is asked
\* for the login name and goes on without a callback, others are refused. The
\* key is the one named, that of the record, or one named after the alias.
PairStarts(p) ==
    /\ run[p].pc = "start" /\ plan[p].op \in {"pair", "pairNoCallback"}
    /\ \E given, listens, identity \in BOOLEAN, answer \in Users,
          found \in DiscoverCallbackHost, valid \in ValidateCallbackHost :
          LET cb == plan[p].op = "pair" /\ (given \/ found)
              known == IF plan[p].user # NoUser THEN plan[p].user ELSE conf.user
              user == IF known = NoUser /\ plan[p].op = "pair" /\ ~ cb THEN answer ELSE known
              refused == \/ ~ PairCandidate(p)
                         \/ cb /\ given /\ ~ valid
                         \/ cb /\ ~ listens
                         \/ plan[p].op = "pair" /\ ~ cb /\ ~ plan[p].terminal
                         \/ ~ cb /\ user = NoUser
          IN run' = [run EXCEPT ![p] = [@ EXCEPT !.pc = IF refused THEN "failed" ELSE "prepare",
                                                 !.cb = cb, !.host = plan[p].host, !.user = user,
                                                 !.path = IF identity \/ conf.path = "none" THEN plan[p].path ELSE conf.path,
                                                 !.exists = conf.present]]
    /\ UNCHANGED <<plan, files, store, agent, conf, host, hook, script, awk, clashed, recordEdits>>

\* managedPairKey: the saved credential must be that of both files.
ManagedPairKey(path) == files[path].pub = store.key[path] /\ Usable(files, store, agent, path)
\* CheckKeyPairUsable: the two files match and the key signs.
CheckKeyPairUsable(path) == files[path].pub = files[path].priv /\ Usable(files, store, agent, path)

\* preparePairKey: a complete, usable key at the path is taken as it is, half a
\* key is refused, and without one a key is generated.
PreparePairKey(p) ==
    /\ run[p].pc = "prepare"
    /\ LET path == run[p].path
           whole == files[path].pub # NoKey /\ files[path].priv # NoKey
           usable == IF store.on /\ store.key[path] # NoKey THEN ManagedPairKey(path)
                     ELSE CheckKeyPairUsable(path)
       IN \/ /\ Exists(path)
             /\ run' = [run EXCEPT ![p].pc = IF whole /\ usable THEN "publish" ELSE "failed",
                                   ![p].pub = files[path].pub]
             /\ UNCHANGED store
          \/ /\ ~ Exists(path)
             /\ \E ok \in PassphraseAvailable(p) :
                  /\ run' = [run EXCEPT ![p].pc = IF ok THEN "inspect" ELSE "failed"]
                  /\ KeyPassphrase(p, ok)
    /\ UNCHANGED <<plan, files, agent, conf, host, hook, script, awk, clashed, recordEdits>>

\* The end of preparePairKey for a key just generated: the saved credential is
\* checked against the files, or the agent must load the key. A key that fails
\* its check stays, unless it has no passphrase.
PairKeyGenerated(p) ==
    /\ run[p].pc = "generated" /\ plan[p].op \in {"pair", "pairNoCallback"}
    /\ LET path == run[p].path
           managed == store.on /\ plan[p].protect # "plain"
       IN \/ /\ managed
             /\ run' = [run EXCEPT ![p].pc = IF ManagedPairKey(path) THEN "publish" ELSE "failed",
                                   ![p].pub = store.key[path], ![p].gen = ManagedPairKey(path)]
             /\ UNCHANGED <<files, agent>>
          \/ /\ ~ managed
             /\ \E keychain, reachable \in BOOLEAN :
                  LET ag == IF plan[p].protect = "plain" THEN agent ELSE StoreAndLoad(agent, p, keychain, reachable)
                      ok == files[path].pub = files[path].priv /\ Usable(files, store, ag, path)
                  IN /\ agent' = ag
                     /\ run' = [run EXCEPT ![p].pc = IF ok THEN "publish" ELSE "failed",
                                           ![p].pub = files[path].pub, ![p].gen = ok]
                     /\ IF ~ ok /\ plan[p].protect = "plain" THEN RemoveGeneratedKeyPair(path)
                        ELSE UNCHANGED files
    /\ UNCHANGED <<plan, store, conf, host, hook, script, awk, clashed, recordEdits>>

\* A pairing ends without a record. Without a callback the deferred function
\* removes the key this run generated; with one the key stays.
PairEnds(p) ==
    /\ run' = [run EXCEPT ![p].pc = "failed"]
    /\ hook' = [hook EXCEPT ![p].up = FALSE]
    /\ IF run[p].gen /\ ~ run[p].cb THEN RemoveGeneratedKeyPair(run[p].path) ELSE UNCHANGED files

\* NewToken fails: a key generated for this session goes.
NoToken(p) ==
    /\ run[p].pc = "publish" /\ run[p].cb
    /\ run' = [run EXCEPT ![p].pc = "failed"]
    /\ IF run[p].gen THEN RemoveGeneratedKeyPair(run[p].path) ELSE UNCHANGED files
    /\ UNCHANGED <<plan, store, agent, conf, host, hook, script, awk, clashed, recordEdits>>

\* BuildScripts: the command carries the public key and, with a callback, the
\* address and the one-time token of this run.
BuildScripts(p) == [key |-> run[p].pub, callback |-> run[p].cb]
\* validatePrintedPairCommandLengths: a printed command must not be too long.
PrintedFits == BOOLEAN
\* writePairCommandFiles: the files are written, private, or the command fails.
FilesWritten == BOOLEAN

\* The command is printed or written to files for the user to take to the host.
CommandPublished(p) ==
    /\ \E toFiles \in BOOLEAN, fits \in PrintedFits, written \in FilesWritten : IF toFiles THEN written ELSE fits
    /\ script' = [script EXCEPT ![p] = [w \in Places |-> [@[w] EXCEPT !.pc = "ready"]]]
    /\ UNCHANGED files

\* With a callback: its server runs from now on, and the command waits.
PublishWithCallback(p) ==
    /\ run[p].pc = "publish" /\ run[p].cb
    /\ \/ /\ CommandPublished(p)
          /\ run' = [run EXCEPT ![p].pc = "wait"]
          /\ hook' = [hook EXCEPT ![p].up = TRUE]
       \/ PairEnds(p) /\ UNCHANGED script
    /\ UNCHANGED <<plan, store, agent, conf, host, awk, clashed, recordEdits>>

\* Without one: the command tries to log in.
PublishNoCallback(p) ==
    /\ run[p].pc = "publish" /\ ~ run[p].cb
    /\ \/ /\ CommandPublished(p)
          /\ run' = [run EXCEPT ![p].pc = "verify"]
          /\ UNCHANGED hook
       \/ PairEnds(p) /\ UNCHANGED script
    /\ UNCHANGED <<plan, store, agent, conf, host, awk, clashed, recordEdits>>

-----------------------------------------------------------------------------
(* The script at a place, and the callback server it reports to.           *)

\* posixScript: the key goes to the authorized_keys of the user, unless its line
\* is there.
PosixScript(h, u, k) == [host EXCEPT ![h].auth[u] = @ \cup {k}]
\* windowsScript: only an administrator may run it, and the key goes to the
\* user's file and to the one that all administrators share.
WindowsScript(h, u, k) ==
    IF u \in Admins THEN [host EXCEPT ![h].auth = [v \in Users |-> IF v \in Admins THEN @[v] \cup {k} ELSE @[v]]]
    ELSE host

\* The script makes sure that sshd is installed, configured for the port and
\* running, installs the key, opens the firewall and goes on to the callback if
\* it has one. It may stop on an error before the key is installed or after.
ScriptInstalls(p, w) ==
    /\ script[p][w].pc = "ready"
    /\ LET k == BuildScripts(p).key
           after == IF w[1] \in Windows THEN WindowsScript(w[1], w[2], k) ELSE PosixScript(w[1], w[2], k)
       IN \E installed, ok \in BOOLEAN :
            /\ ok => installed /\ k \in after[w[1]].auth[w[2]]
            /\ host' = IF installed THEN after ELSE host
            /\ script' = [script EXCEPT ![p][w].pc = IF ~ ok THEN "failed"
                                                     ELSE IF BuildScripts(p).callback THEN "call" ELSE "sent"]
    /\ UNCHANGED <<plan, files, store, agent, conf, run, hook, awk, clashed, recordEdits>>

\* Mutation of HandlerAnswer: every report after the first is taken for a retry.
HandlerAnswerAny(k, w) == k.accepted = NoReport \/ k.accepted # NoReport
\* The handler, under its mutex: the first report is accepted, an identical
\* one is acknowledged again, another is refused.
HandlerAnswer(k, w) == k.accepted = NoReport \/ k.accepted = w

\* What the handler keeps: the report it accepted, queued once for the command,
\* and the signal that it was confirmed.
HandlerKeeps(k, w) ==
    IF k.accepted = NoReport THEN [k EXCEPT !.accepted = w, !.queued = TRUE]
    ELSE IF k.accepted = w THEN [k EXCEPT !.retried = TRUE] ELSE k

\* decodeReport and validateReport: a name the controller does not accept is a
\* bad request.
ReportValid == BOOLEAN

\* One callback: the request may not arrive, the answer may be lost. retry()
\* tries again until the tries are used up, and the last one decides.
ScriptCalls(p, w) ==
    /\ script[p][w].pc = "call"
    /\ \E arrives, answered \in BOOLEAN, valid \in ReportValid :
          LET heard == arrives /\ hook[p].up /\ valid
              accepted == heard /\ answered /\ HandlerAnswer(hook[p], w)
              tries == script[p][w].tries + 1
          IN /\ hook' = IF heard THEN [hook EXCEPT ![p] = HandlerKeeps(@, w)] ELSE hook
             /\ script' = [script EXCEPT ![p][w] =
                    IF accepted THEN [@ EXCEPT !.pc = "confirm"]
                    ELSE [pc |-> IF tries >= MaxTries THEN "failed" ELSE "call", tries |-> tries]]
    /\ UNCHANGED <<plan, files, store, agent, conf, host, run, awk, clashed, recordEdits>>

\* The same report once more, whatever becomes of it, and the script says that
\* the report was sent.
ScriptConfirms(p, w) ==
    /\ script[p][w].pc = "confirm"
    /\ \E arrives \in BOOLEAN :
          hook' = IF arrives /\ hook[p].up THEN [hook EXCEPT ![p] = HandlerKeeps(@, w)] ELSE hook
    /\ script' = [script EXCEPT ![p][w].pc = "sent"]
    /\ UNCHANGED <<plan, files, store, agent, conf, host, run, awk, clashed, recordEdits>>

-----------------------------------------------------------------------------
(* pair: the report, the proof and the record.                             *)

\* The command waits for the report; the callback server fails or time is up.
TakeReport(p) ==
    /\ run[p].pc = "wait"
    /\ \/ /\ hook[p].queued
          /\ hook' = [hook EXCEPT ![p].queued = FALSE]
          /\ run' = [run EXCEPT ![p].pc = "verify", ![p].user = hook[p].accepted[2]]
          /\ UNCHANGED files
       \/ PairEnds(p)
    /\ UNCHANGED <<plan, store, agent, conf, host, script, awk, clashed, recordEdits>>

\* sameReportedUser: the account must be the reported one.
SameReportedUser(p) == Account[run[p].user] = run[p].user

\* verifyPairedServer: key logins until one succeeds or time is up; whoami names
\* the account, which is what the record will say.
Verified(p) ==
    /\ LoginWith(run[p].host, run[p].user, run[p].path)
    /\ run' = [run EXCEPT ![p] = [@ EXCEPT !.pc = "save", !.user = Account[run[p].user],
                  !.proved = [host |-> run[p].host, user |-> Account[run[p].user], path |-> run[p].path]]]
    /\ UNCHANGED <<files, hook>>

VerifyReported(p) ==
    /\ run[p].pc = "verify" /\ run[p].cb
    /\ (Verified(p) /\ SameReportedUser(p)) \/ PairEnds(p)
    /\ UNCHANGED <<plan, store, agent, conf, host, script, awk, clashed, recordEdits>>

VerifyNoCallback(p) ==
    /\ run[p].pc = "verify" /\ ~ run[p].cb
    /\ Verified(p) \/ PairEnds(p)
    /\ UNCHANGED <<plan, store, agent, conf, host, script, awk, clashed, recordEdits>>

\* Mutation of PairMaySave: the address is not compared again.
PairMaySaveExisting(p) == run[p].exists = conf.present
\* savePairedServer refuses when the record appeared, disappeared or points
\* elsewhere since the command read it.
PairMaySave(p) ==
    /\ run[p].exists = conf.present
    /\ run[p].exists => conf.host = run[p].host

\* savePairedServer and the end of the command: a saved pairing keeps its
\* callback server for a while, for a script whose answer was lost.
SavePaired(p) ==
    /\ run[p].pc = "save" /\ plan[p].op \in {"pair", "pairNoCallback"}
    /\ \/ /\ PairMaySave(p)
          /\ conf' = Record(IF run[p].exists THEN conf.host ELSE run[p].host, run[p].user, "key", run[p].path)
          /\ run' = [run EXCEPT ![p].pc = IF run[p].cb THEN "grace" ELSE "done"]
          /\ UNCHANGED <<files, hook>>
       \/ PairEnds(p) /\ UNCHANGED conf
    /\ UNCHANGED <<plan, store, agent, host, script, awk, clashed, recordEdits>>

\* waitForPairCallbackRetry: a confirmation or the grace period ends the command.
WaitForPairCallbackRetry(p) ==
    /\ run[p].pc = "grace"
    /\ run' = [run EXCEPT ![p].pc = "done"]
    /\ hook' = [hook EXCEPT ![p].up = FALSE]
    /\ UNCHANGED <<plan, files, store, agent, conf, host, script, awk, clashed, recordEdits>>

-----------------------------------------------------------------------------
(* gen-key, copy-id and provision.                                         *)

\* A command that generates a key for an existing record.
StartGeneration(p) ==
    /\ run[p].pc = "start"
    /\ \E ok \in PassphraseAvailable(p) :
          /\ run' = [run EXCEPT ![p] = [@ EXCEPT !.pc = IF conf.present /\ ok THEN "inspect" ELSE "failed",
                                                 !.host = conf.host, !.user = conf.user, !.path = plan[p].path]]
          /\ KeyPassphrase(p, conf.present /\ ok)
    /\ UNCHANGED <<plan, files, agent, conf, host, hook, script, awk, clashed, recordEdits>>

GenKeyStarts(p) == plan[p].op = "genKey" /\ StartGeneration(p)
HandleGenKeyStarts(p) == plan[p].op = "handleGenKey" /\ StartGeneration(p)
ProvisionStarts(p) == plan[p].op = "provision" /\ StartGeneration(p)

\* rememberGeneratedKey: with a local store the credential is read back.
RememberGeneratedKey(p) == plan[p].protect = "plain" \/ ~ store.on \/ store.key[run[p].path] # NoKey

\* gen-key and the tool load the key into the agent if they can (BestEffort).
GenKeyLoads(p) ==
    /\ run[p].pc = "generated" /\ plan[p].op \in {"genKey", "handleGenKey"}
    /\ \E keychain, reachable \in BOOLEAN :
          agent' = IF store.on \/ plan[p].protect = "plain" THEN agent
                   ELSE StoreAndLoad(agent, p, keychain, reachable)
    /\ run' = [run EXCEPT ![p].pc = IF RememberGeneratedKey(p) \/ plan[p].op = "handleGenKey"
                                    THEN "save" ELSE "failed"]
    /\ UNCHANGED <<plan, files, store, conf, host, hook, script, awk, clashed, recordEdits>>

\* provision needs the credential or the agent.
ProvisionLoads(p) ==
    /\ run[p].pc = "generated" /\ plan[p].op = "provision"
    /\ \E keychain, reachable \in BOOLEAN :
          LET ag == IF store.on THEN agent ELSE StoreAndLoad(agent, p, keychain, reachable)
          IN /\ agent' = ag
             /\ run' = [run EXCEPT ![p].pc = IF RememberGeneratedKey(p) /\ (store.on \/ p \in ag)
                                             THEN "append" ELSE "failed"]
    /\ UNCHANGED <<plan, files, store, conf, host, hook, script, awk, clashed, recordEdits>>

\* A configuration update fails: the key pair just made goes.
SaveFails(p) ==
    /\ run' = [run EXCEPT ![p].pc = "failed"]
    /\ RemoveGeneratedKeyPair(run[p].path)
    /\ UNCHANGED conf

\* gen-key writes the path into the record as it is now, and needs the record.
SaveKeyPath(p) ==
    /\ run[p].pc = "save" /\ plan[p].op = "genKey"
    /\ \/ /\ conf.present
          /\ conf' = [conf EXCEPT !.path = run[p].path]
          /\ run' = [run EXCEPT ![p].pc = "done"]
          /\ UNCHANGED files
       \/ SaveFails(p)
    /\ UNCHANGED <<plan, store, agent, host, hook, script, awk, clashed, recordEdits>>

\* The tool makes it a key record too, and goes on without the record.
ToolSavesKeyPath(p) ==
    /\ run[p].pc = "save" /\ plan[p].op = "handleGenKey"
    /\ \/ /\ conf' = IF conf.present THEN [conf EXCEPT !.path = run[p].path, !.auth = "key"] ELSE conf
          /\ run' = [run EXCEPT ![p].pc = "done"]
          /\ UNCHANGED files
       \/ SaveFails(p)
    /\ UNCHANGED <<plan, store, agent, host, hook, script, awk, clashed, recordEdits>>

\* copy-id needs a record with a key.
CopyIDStarts(p) ==
    /\ run[p].pc = "start" /\ plan[p].op = "copyID"
    /\ LET ready == conf.present /\ conf.auth = "key" /\ conf.path # "none"
       IN run' = [run EXCEPT ![p] = [@ EXCEPT !.pc = IF ready THEN "append" ELSE "failed",
                                              !.host = conf.host, !.user = conf.user, !.path = conf.path]]
    /\ UNCHANGED <<plan, files, store, agent, conf, host, hook, script, awk, clashed, recordEdits>>

\* CopyID reads the public key, logs in with the password and starts the remote
\* command, which first appends the key.
CopyIDAppends(p) ==
    /\ run[p].pc = "append"
    /\ LET key == files[run[p].path].pub
       IN IF key # NoKey /\ LoginByPassword(run[p].host)
          THEN /\ run' = [run EXCEPT ![p].pc = "dedupe", ![p].pub = key]
               /\ host' = [host EXCEPT ![run[p].host].auth[run[p].user] = @ \cup {key}]
          ELSE /\ run' = [run EXCEPT ![p].pc = "failed"]
               /\ UNCHANGED host
    /\ UNCHANGED <<plan, files, store, agent, conf, hook, script, awk, clashed, recordEdits>>

\* What awk's output is: nothing, the temporary file, the file that mv made of
\* it, or a file without a name.
Outputs == {"none", "tmp", "auth", "gone"}
NoAwk == [lines |-> {}, out |-> "none"]
\* rm of the temporary file, or mv of it over authorized_keys, under those who
\* have one of the two open.
AfterRm == [o \in Outputs |-> IF o = "tmp" THEN "gone" ELSE o]
AfterMv == [o \in Outputs |-> IF o = "tmp" THEN "auth" ELSE IF o = "auth" THEN "gone" ELSE o]
At(q, p) == run[q].host = run[p].host /\ run[q].user = run[p].user
AwkOutputs(p, becomes) ==
    [q \in Runs |-> IF At(q, p) THEN [awk[q] EXCEPT !.out = becomes[@]] ELSE awk[q]]
\* A run has opened the temporary file and has not moved it yet.
Rewrites(q) == run[q].pc \in {"awkReads", "awkWrites", "rename"}

\* The shell opens authorized_keys.tmp for awk and empties it: one name for
\* every copier of that user.
CopyIDTruncates(p) ==
    /\ run[p].pc = "dedupe"
    /\ run' = [run EXCEPT ![p].pc = "awkReads"]
    /\ host' = [host EXCEPT ![run[p].host].tmp[run[p].user] = {{}}]
    /\ awk' = [awk EXCEPT ![p].out = "tmp"]
    /\ clashed' = IF \E q \in Runs \ {p} : Rewrites(q) /\ At(q, p)
                  THEN clashed \cup {<<run[p].host, run[p].user>>} ELSE clashed
    /\ UNCHANGED <<plan, files, store, agent, conf, hook, script, recordEdits>>

CopyIDReads(p) ==
    /\ run[p].pc = "awkReads"
    /\ run' = [run EXCEPT ![p].pc = "awkWrites"]
    /\ awk' = [awk EXCEPT ![p].lines = host[run[p].host].auth[run[p].user]]
    /\ UNCHANGED <<plan, files, store, agent, conf, host, hook, script, clashed, recordEdits>>

\* awk writes over the beginning of the file it has: what another copier wrote
\* there may stay behind it.
CopyIDWrites(p) ==
    /\ run[p].pc = "awkWrites"
    /\ LET h == run[p].host
           u == run[p].user
       IN \/ /\ awk[p].out = "tmp"
             /\ \E kept \in SUBSET UNION host[h].tmp[u] :
                  host' = [host EXCEPT ![h].tmp[u] = {awk[p].lines \cup kept}]
          \/ /\ awk[p].out = "auth"
             /\ \E kept \in SUBSET host[h].auth[u] :
                  host' = [host EXCEPT ![h].auth[u] = awk[p].lines \cup kept]
          \/ awk[p].out = "gone" /\ UNCHANGED host
    /\ run' = [run EXCEPT ![p].pc = "rename"]
    /\ awk' = [awk EXCEPT ![p] = NoAwk]
    /\ UNCHANGED <<plan, files, store, agent, conf, hook, script, clashed, recordEdits>>

\* mv, if there is a temporary file; another copier may have moved or removed it.
CopyIDRenames(p) ==
    /\ run[p].pc = "rename"
    /\ LET h == run[p].host
           u == run[p].user
       IN IF host[h].tmp[u] = {}
          THEN /\ run' = [run EXCEPT ![p].pc = "mvFailed"]
               /\ UNCHANGED <<host, awk>>
          ELSE /\ run' = [run EXCEPT ![p].pc = "exit"]
               /\ \E lines \in host[h].tmp[u] :
                     host' = [host EXCEPT ![h].auth[u] = lines, ![h].tmp[u] = {}]
               /\ awk' = AwkOutputs(p, AfterMv)
    /\ UNCHANGED <<plan, files, store, agent, conf, hook, script, clashed, recordEdits>>

\* The shell's trap removes the temporary file, whoever made it.
TrapRemoves(p) ==
    /\ host' = [host EXCEPT ![run[p].host].tmp[run[p].user] = {}]
    /\ awk' = [AwkOutputs(p, AfterRm) EXCEPT ![p] = NoAwk]
    /\ UNCHANGED <<plan, files, store, agent, conf, hook, script, clashed, recordEdits>>

CopyIDExits(p) ==
    /\ run[p].pc = "exit"
    /\ run' = [run EXCEPT ![p].pc = "test"]
    /\ TrapRemoves(p)

\* A command of it failed, or it is cut off; the trap runs all the same.
CopyIDBreaks(p) ==
    /\ run[p].pc \in {"dedupe", "awkReads", "awkWrites", "rename", "mvFailed", "exit"}
    /\ run' = [run EXCEPT ![p].pc = "failed"]
    /\ TrapRemoves(p)

\* Mutation of KeyProved: any session that opens counts, a password's too.
AnyLoginProves(p) == LoginByPassword(run[p].host) \/ LoginWith(run[p].host, run[p].user, run[p].path)
\* The test of copy-id and of provision: a login with the key itself.
KeyProved(p) == LoginWith(run[p].host, run[p].user, run[p].path)

\* runCopyID ends with the test; runProvision refuses to harden without it.
TestKey(p) ==
    /\ run[p].pc = "test"
    /\ \/ /\ KeyProved(p)
          /\ run' = [run EXCEPT ![p] = [@ EXCEPT
                !.pc = IF plan[p].op = "copyID" THEN "done" ELSE IF plan[p].harden THEN "harden" ELSE "save",
                !.proved = [host |-> run[p].host, user |-> run[p].user, path |-> run[p].path]]]
       \/ run' = [run EXCEPT ![p].pc = "failed"]
    /\ UNCHANGED <<plan, files, store, agent, conf, host, hook, script, awk, clashed, recordEdits>>

\* hardenDisablePassword logs in again and writes the drop-in; sshd -t may
\* refuse, and the drop-in stays.
HardenWrites(p) ==
    /\ run[p].pc = "harden"
    /\ \/ /\ KeyProved(p)
          /\ host' = [host EXCEPT ![run[p].host].dropIn = TRUE]
          /\ \E valid \in BOOLEAN : run' = [run EXCEPT ![p].pc = IF valid THEN "reload" ELSE "save"]
       \/ run' = [run EXCEPT ![p].pc = "save"] /\ UNCHANGED host
    /\ UNCHANGED <<plan, files, store, agent, conf, hook, script, awk, clashed, recordEdits>>

\* sshd reads its configuration: password login is off if the drop-in is read.
Reloaded(h) == [host EXCEPT ![h].keyOnly = @ \/ (host[h].dropIn /\ h \in Includes)]

\* The reload, and sshd -T to see that it took effect. Whatever it says, the
\* record is saved: key login was proved.
HardenReloads(p) ==
    /\ run[p].pc = "reload"
    /\ run' = [run EXCEPT ![p].pc = "save"]
    /\ host' = Reloaded(run[p].host)
    /\ UNCHANGED <<plan, files, store, agent, conf, hook, script, awk, clashed, recordEdits>>

\* sshd restarts for another reason, and finds a drop-in left behind.
SshdRestarts(h) ==
    /\ Reloaded(h) # host
    /\ host' = Reloaded(h)
    /\ UNCHANGED <<plan, files, store, agent, conf, run, hook, script, awk, clashed, recordEdits>>

\* provision saves the key into the record if it still points where the test went.
SaveProvisioned(p) ==
    /\ run[p].pc = "save" /\ plan[p].op = "provision"
    /\ \/ /\ conf.present /\ conf.host = run[p].host /\ conf.user = run[p].user
          /\ conf' = Record(conf.host, conf.user, "key", run[p].path)
          /\ run' = [run EXCEPT ![p].pc = "done"]
       \/ run' = [run EXCEPT ![p].pc = "failed"] /\ UNCHANGED conf
    /\ UNCHANGED <<plan, files, store, agent, host, hook, script, awk, clashed, recordEdits>>

-----------------------------------------------------------------------------
(* Another command edits, adds or removes the record.                      *)

EditRecord ==
    /\ recordEdits < MaxRecordEdits
    /\ \/ conf.present /\ \E h \in Targets \ {conf.host} : conf' = [conf EXCEPT !.host = h]
       \/ conf.present /\ conf' = NoRecord
       \/ ~ conf.present /\ \E h \in Targets, u \in Users : conf' = Record0(h, u)
    /\ recordEdits' = recordEdits + 1
    /\ UNCHANGED <<plan, files, store, agent, host, run, hook, script, awk, clashed>>

-----------------------------------------------------------------------------
EnrollmentInit ==
    /\ plan \in Scenarios
    /\ files = [x \in Paths |-> [priv |-> NoKey, pub |-> NoKey]]
    /\ store = [on |-> FALSE, key |-> [x \in Paths |-> NoKey]]
    /\ agent = {}
    /\ conf \in {NoRecord} \cup {Record0(h, u) : h \in Targets, u \in Users}
    /\ host = [h \in Targets |-> [auth |-> [u \in Users |-> {}], tmp |-> [u \in Users |-> {}],
                                dropIn |-> FALSE, keyOnly |-> FALSE]]
    /\ run = [p \in Runs |-> [pc |-> "start", cb |-> FALSE, host |-> "none", user |-> NoUser, path |-> "none",
                              exists |-> FALSE, gen |-> FALSE, pub |-> NoKey, proved |-> NoProof]]
    /\ hook = [p \in Runs |-> [up |-> FALSE, accepted |-> NoReport, queued |-> FALSE, retried |-> FALSE]]
    /\ script = [p \in Runs |-> [w \in Places |-> [pc |-> "idle", tries |-> 0]]]
    /\ awk = [p \in Runs |-> NoAwk]
    /\ clashed = {}
    /\ recordEdits = 0

EnrollmentNext ==
    \/ \E p \in Runs :
          \/ PairStarts(p) \/ PreparePairKey(p) \/ PairKeyGenerated(p)
          \/ NoToken(p) \/ PublishWithCallback(p) \/ PublishNoCallback(p)
          \/ TakeReport(p) \/ VerifyReported(p) \/ VerifyNoCallback(p)
          \/ SavePaired(p) \/ WaitForPairCallbackRetry(p)
          \/ Inspect(p) \/ RememberKeyFile(p) \/ WritePrivate(p) \/ WritePublic(p)
          \/ GenKeyStarts(p) \/ HandleGenKeyStarts(p) \/ ProvisionStarts(p)
          \/ GenKeyLoads(p) \/ ProvisionLoads(p) \/ SaveKeyPath(p) \/ ToolSavesKeyPath(p)
          \/ CopyIDStarts(p) \/ CopyIDAppends(p) \/ CopyIDTruncates(p) \/ CopyIDReads(p) \/ CopyIDWrites(p)
          \/ CopyIDRenames(p) \/ CopyIDExits(p) \/ CopyIDBreaks(p)
          \/ TestKey(p) \/ HardenWrites(p) \/ HardenReloads(p) \/ SaveProvisioned(p)
    \/ \E p \in Runs, w \in Places : ScriptInstalls(p, w) \/ ScriptCalls(p, w) \/ ScriptConfirms(p, w)
    \/ \E h \in Targets : SshdRestarts(h)
    \/ EditRecord

EnrollmentSpec == EnrollmentInit /\ [][EnrollmentNext]_enrollmentVars

-----------------------------------------------------------------------------
(* Properties.                                                             *)

\* The state of the module has its type.
EnrollmentTypeOK ==
    /\ plan \in Scenarios
    /\ files \in [Paths -> [priv : Key, pub : Key]]
    /\ store \in [on : BOOLEAN, key : [Paths -> Key]]
    /\ agent \subseteq Runs
    /\ conf \in [present : BOOLEAN, host : Targets \cup {"none"}, user : User,
                 auth : {"none", "password", "key"}, path : Paths \cup {"none"}]
    /\ host \in [Targets -> [auth : [Users -> SUBSET Runs], tmp : [Users -> SUBSET (SUBSET Runs)],
                           dropIn : BOOLEAN, keyOnly : BOOLEAN]]
    /\ run \in [Runs -> [pc : PCs, cb : BOOLEAN, host : Targets \cup {"none"}, user : User,
                         path : Paths \cup {"none"}, exists : BOOLEAN,
                         gen : BOOLEAN, pub : Key,
                         proved : [host : Targets \cup {"none"}, user : User, path : Paths \cup {"none"}]]]
    /\ hook \in [Runs -> [up : BOOLEAN, accepted : Places \cup {NoReport}, queued : BOOLEAN, retried : BOOLEAN]]
    /\ script \in [Runs -> [Places -> [pc : {"idle", "ready", "call", "confirm", "sent", "failed"}, tries : Nat]]]
    /\ awk \in [Runs -> [lines : SUBSET Runs, out : Outputs]]
    /\ clashed \subseteq Targets \X Users
    /\ recordEdits \in Nat

\* A host that provision closed to passwords can still be reached: a run that
\* proved its key there still has a usable key file for it and the host still
\* has the key, whatever other commands copied, generated, edited or gave up
\* meanwhile (hardenDisablePassword, the rewrite of authorized_keys by CopyID
\* and the removal of its temporary file by others, the removal of generated
\* keys). It holds while no two commands generate a protected key at one path:
\* the slower one would leave its own secret in the store and no file
\* (generateED25519); and while no two commands are between the truncation of
\* authorized_keys.tmp and their mv for the same user at the same time, which
\* can lose every line (BuildCopyIDCommand).
KeyOnlyIsReachable ==
    \A h \in Targets : host[h].keyOnly =>
        \E p \in Runs : /\ run[p].proved.host = h
                       /\ \/ LoginWith(h, run[p].proved.user, run[p].proved.path)
                          \/ <<h, run[p].proved.user>> \in clashed

\* A record that pair or provision writes points to the host, the account and
\* the key file that this very run logged in with, although the configuration
\* was edited while it waited (savePairedServer, newProvisionCmd).
SavedIsProved ==
    [][\A p \in Runs :
          run[p].pc = "save" /\ run'[p].pc \in {"grace", "done"} /\ plan[p].op \notin {"genKey", "handleGenKey"}
          => [host |-> conf'.host, user |-> conf'.user, path |-> conf'.path] = run[p].proved]_enrollmentVars

\* A script that says its report was sent is the one the command believed: the
\* accepted report is its own, although answers were lost, callbacks retried
\* and the command given to several users and hosts (HandlerWithRetrySignal).
SentIsAccepted ==
    \A p \in Runs, w \in Places :
        run[p].cb /\ script[p][w].pc \in {"confirm", "sent"} => hook[p].accepted = w

=============================================================================
