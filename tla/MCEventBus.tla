----------------------------- MODULE MCEventBus -----------------------------
(* Model-checking instance of EventBus.                                     *)
EXTENDS EventBus, TLC

ThreadSymmetry == Permutations(Threads)

\* Binary listeners and domains do not meet in one behaviour: the run looks at
\* both kinds of listener outside domains, and at text listeners in and out of one.
BinaryUsed ==
    \/ \E i \in DOMAIN tokens : tokens[i].kind = "binary"
    \/ \E e \in Events : Listeners(e, "binary") # {}
    \/ \E th \in Threads : call[th].op # "idle" /\ call[th].op # "off" /\ call[th].kind = "binary"
DomainUsed ==
    \/ \E d \in Domains : domains[d] # None
    \/ \E l \in AllListeners : l.disp # Sync
OneAtATime == ~(BinaryUsed /\ DomainUsed)
=============================================================================
