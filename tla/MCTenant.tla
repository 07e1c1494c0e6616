------------------------------ MODULE MCTenant ------------------------------
(* Kinds of tenants, and symmetry for the safety of Tenant. *)
EXTENDS Tenant, TLC

Plain   == [tools |-> FALSE, sink |-> "none"]
MCPlain == {Plain}
MCKinds == MCPlain \cup {[tools |-> TRUE, sink |-> "token"]}
                   \cup [tools : {FALSE}, sink : {"secret", "noURL"}]

NamespaceSymmetry == Permutations(Namespace)
=============================================================================
