--------------------------- MODULE MCCoreLifecycle ---------------------------
(* CoreLifecycle on a few requests and one configuration per shape of profile. *)
EXTENDS CoreLifecycle, TLC

CONSTANTS f1, f2

MCFullCfg == {f1, f2}

\* On Linux everything at once; on darwin a tun with a usable and with an unusable
\* address; anywhere, a sidecar and one gate, and nothing but sing-box.
Linux == [extra |-> TRUE, sidecar |-> TRUE, full |-> {f1, f2}, redirect |-> TRUE,
          tun |-> "none"]
Darwin == [extra |-> TRUE, sidecar |-> TRUE, full |-> {}, redirect |-> FALSE,
           tun |-> "valid"]
BadTun == [extra |-> TRUE, sidecar |-> TRUE, full |-> {f1}, redirect |-> FALSE,
           tun |-> "invalid"]
Plain == NoConfig

MCConfig == {Linux, Darwin, BadTun, Plain}

\* Four requests, of which a Start that panicked counts for two.
PanicsCountTwice ==
    Cardinality({r \in Req : pc[r] # "idle"})
    + Cardinality({r \in Req : reply[r] = "panicked"}) <= Cardinality(Req)

Symmetry == Permutations(Req)
=============================================================================
