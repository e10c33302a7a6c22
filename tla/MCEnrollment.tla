---------------------------- MODULE MCEnrollment ----------------------------
(* Instances of Enrollment.                                                *)
EXTENDS Enrollment

Do(op, path, h, user, protect, harden) ==
    [op |-> op, path |-> path, host |-> h, user |-> user, protect |-> protect,
     harden |-> harden, terminal |-> protect # "own"]

Two(a, b) == {f \in [Runs -> {a, b}] : \A p \in Runs : (p = "r1") = (f[p] = a)}

\* Two commands at a time, whose keys the local store or the user protects.
MixedScenarios ==
    LET pair(pr, x) == Do("pair", x, "h1", NoUser, pr, FALSE)
        quiet(pr, x) == Do("pairNoCallback", x, "h1", "u1", pr, FALSE)
        prov(pr, x) == Do("provision", x, "h1", NoUser, pr, TRUE)
        gen(op, pr, x) == Do(op, x, "h1", NoUser, pr, FALSE)
    IN UNION {Two(pair("auto", "k1"), prov("auto", "k2")),
              Two(quiet("own", "k1"), prov("own", "k1")),
              Two(prov("own", "k1"), prov("auto", "k2")),
              Two(gen("handleGenKey", "own", "k1"), gen("copyID", "own", "k1")),
              Two(gen("handleGenKey", "auto", "k1"), gen("copyID", "auto", "k2")),
              Two(pair("own", "k1"), gen("copyID", "own", "k1")),
              Two(Do("pairNoCallback", "k1", "h2", "u2", "auto", FALSE), Do("pair", "k2", "h2", NoUser, "auto", FALSE)),
              Two(gen("genKey", "plain", "k1"), pair("plain", "k1"))}

AccountMap == [u \in Users |-> IF u = "u2" THEN "u1" ELSE u]
SomePlaces == {<<"h1", "u1">>, <<"h2", "u2">>}

=============================================================================
