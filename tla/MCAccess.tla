------------------------------ MODULE MCAccess ------------------------------
(* Model checking of what stands between a user and the outside: credentials *)
(* and the clients built from them, the authentication of requests, managed  *)
(* deployments of BasaltPass.  They share no state: one of them, the focus,  *)
(* is drawn at the beginning and moves.                                      *)
EXTENDS Credentials, RequestAuth, ManagedBasaltPass, TLC

VARIABLE focus

accessVars == <<credVars, authVars, managedVars, focus>>

\* Two deployments into one namespace.
MCInstances == {"d1", "d2"}
MCSpaceOf == [d \in MCInstances |-> "bp-web"]

\* Users are interchangeable, and so are calls.
Symmetry == Permutations(Users) \cup Permutations(CredCalls)

AccessInit ==
  /\ focus \in {"credentials", "auth", "managed"}
  /\ CredentialInit
  /\ AuthInit /\ (focus # "auth" => tokenEnds = Never /\ keyEnds = Never)
  /\ ManagedInit /\ (focus # "managed" => \A d \in Instances : via[d] = "instance")

AccessNext ==
  /\ \/ focus = "credentials" /\ CredentialNext /\ UNCHANGED <<authVars, managedVars>>
     \/ focus = "auth" /\ AuthNext /\ UNCHANGED <<credVars, managedVars>>
     \/ focus = "managed" /\ ManagedNext /\ UNCHANGED <<credVars, authVars>>
  /\ UNCHANGED focus

AccessSpec == AccessInit /\ [][AccessNext]_accessVars

\* Every variable of these components has its type.
AccessTypeOK == CredentialTypeOK /\ AuthTypeOK /\ ManagedTypeOK
=============================================================================
