---------------------------- MODULE MCConfigFile ----------------------------
EXTENDS ConfigFile, SequencesExt
CONSTANTS a1, a2, a3, h1, h2, e1, e2

\* The vault's e2 is reached through a1, the name of e1.
TwoEntryServers ==
    (e1 :> [host |-> h1, jump |-> None, keep |-> FALSE])
        @@ (e2 :> [host |-> h2, jump |-> a1, keep |-> TRUE])
TwoEntryNames == (e1 :> <<a1, a3>>) @@ (e2 :> <<a2>>)

Idle(h, j, o) ==
    [host |-> h, jump |-> j, keep |-> FALSE, entry |-> None, owned |-> o,
     born |-> 0, used |-> [at |-> 0, host |-> None], seen |-> [at |-> 0, host |-> None]]

\* Two servers of which one is in the vault and the other is reached through
\* it, from before sshm kept creation times.
TwoServers ==
    [servers |-> (a1 :> Idle(h1, None, TRUE)) @@ (a2 :> Idle(h2, a1, FALSE))
                 @@ (a3 :> NoServer),
     default |-> None, project |-> None, sound |-> TRUE]
-----------------------------------------------------------------------------
(* PublishInventory as the loops of the code run: one record of the map    *)
(* after another, in every order, and then one entry after another. The    *)
(* set that ConfigFile gives is the set of their outcomes.                 *)

Visit(o, st, a) ==
    LET s == st.cfg.servers[a]
        drop == Status(o, s) = {"deleted"} /\ ~Protected(st.cfg, a)
    IN  IF s = NoServer THEN st
        ELSE IF s.entry # None
        THEN IF drop THEN [st EXCEPT !.cfg.servers[a] = NoServer] ELSE st
        ELSE IF s.owned /\ Status(o, s) = {"deleted"}
        THEN IF drop THEN [st EXCEPT !.gone = @ \union {a}] ELSE st
        ELSE [st EXCEPT !.cfg.servers[a].owned = @ \/ Status(o, s) \ {"deleted"} # {},
                        !.native = @ \union IdOf(s)]

Walked(cfg, o) ==
    {FoldLeft(LAMBDA st, a : Visit(o, st, a),
              [cfg |-> cfg, gone |-> {}, native |-> {}], order) :
        order \in SetToSeqs(Aliases)}

PublishEntry(o, native, cfg, e) ==
    LET a == PublishedAlias(cfg, e, {})
    IN  IF o.arg[e] # "live" \/ e \in native \/ a = None THEN cfg
        ELSE Put(cfg, a, PublishedServer(cfg.servers[a], e))

PublishLoop(cfg, o) ==
    {FoldLeft(LAMBDA c, e : PublishEntry(o, st.native, c, e), Without(st.cfg, st.gone),
              SetToSortSeq(Entries, LAMBDA d, e : EntryRank[d] < EntryRank[e])) :
        st \in Walked(cfg, o)}

\* Every way three records can refer to each other, to the vault's entries and
\* to the default, under every vault.
SomeRecords ==
    {NoServer} \union {Idle(h, j, TRUE) : h \in Hosts, j \in Aliases \union {None}}
    \union {[Idle(EntryServer[e].host, j, TRUE) EXCEPT !.entry = e] :
             e \in Entries, j \in Aliases \union {None}}
SomeConfigs ==
    {[servers |-> servers, default |-> d, project |-> None, sound |-> TRUE] :
        servers \in [Aliases -> SomeRecords], d \in {None, a1}}
SomeVaults == Ask("publish", {None}, [Entries -> {"live", "deleted", "conflict"}], {None})

ASSUME LoopsAgree ==
    \A cfg \in SomeConfigs, o \in SomeVaults : PublishInventory(cfg, o) = PublishLoop(cfg, o)
=============================================================================
