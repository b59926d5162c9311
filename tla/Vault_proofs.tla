---------------------------- MODULE Vault_proofs ----------------------------
(***************************************************************************)
(* Proofs about Vault, for any number of processes, entries and secrets.   *)
(* The argument: the key file, once linked, is never replaced, so that all *)
(* keys in use and all files of entries agree with it.                     *)
(***************************************************************************)
EXTENDS Vault, TLAPS

(* What a process knows at each place.                                     *)
LocalsInv ==
  \A p \in Processes :
    /\ at[p] # "idle" => entry[p] \in Entries
    /\ at[p] \in {"check", "link", "load", "write"} => secret[p] \in Secrets
    /\ at[p] = "link" => key[p] = p
    /\ at[p] = "load" => keyFile # None
    /\ at[p] \in {"write", "read"} => key[p] = keyFile /\ keyFile # None

(* Everything is encrypted under the key in the key file.                  *)
FilesInv == \A e \in Entries : credFile[e] # None => credFile[e].key = keyFile

IInv == TypeOK /\ LocalsInv /\ FilesInv

(* IInv is inductive.                                                      *)
LEMMA InitInv == Init => IInv
  BY NoneAssumption DEF Init, IInv, TypeOK, LocalsInv, FilesInv

LEMMA StepInv == IInv /\ [Next]_vars => IInv'
<1> SUFFICES ASSUME IInv, [Next]_vars PROVE IInv'
  OBVIOUS
<1> USE NoneAssumption DEF IInv, TypeOK, LocalsInv, FilesInv
<1>1. ASSUME NEW p \in Processes, NEW e \in Entries, NEW s \in Secrets, BeginSet(p, e, s)
      PROVE IInv'
  BY <1>1 DEF BeginSet, Goto
<1>2. ASSUME NEW p \in Processes, NEW e \in Entries, BeginGet(p, e)
      PROVE IInv'
  BY <1>2 DEF BeginGet, Goto
<1>3. ASSUME NEW p \in Processes, NEW e \in Entries, RemoveCredFile(p, e)
      PROVE IInv'
  BY <1>3 DEF RemoveCredFile, localVars
<1>4. ASSUME NEW p \in Processes, CheckKeyFile(p)
      PROVE IInv'
  BY <1>4 DEF CheckKeyFile, Goto
<1>5. ASSUME NEW p \in Processes, LinkKeyFile(p)
      PROVE IInv'
  BY <1>5 DEF LinkKeyFile, Goto
<1>6. ASSUME NEW p \in Processes, LoadKeyFile(p)
      PROVE IInv'
  BY <1>6 DEF LoadKeyFile, Goto
<1>7. ASSUME NEW p \in Processes, ReplaceCredFile(p)
      PROVE IInv'
  BY <1>7 DEF ReplaceCredFile, Return, Goto
<1>8. ASSUME NEW p \in Processes, ReadCredFile(p) \/ Fail(p)
      PROVE IInv'
  BY <1>8 DEF ReadCredFile, Fail, Return, Goto
<1>9. CASE UNCHANGED vars
  BY <1>9 DEF vars, localVars
<1> QED
  BY <1>1, <1>2, <1>3, <1>4, <1>5, <1>6, <1>7, <1>8, <1>9 DEF Next

(* The invariant on which the theorems rest (credential_store.rs:206-352). *)
THEOREM Invariant == Spec => []IInv
<1> QED
  BY InitInv, StepInv, PTL DEF Spec

(* Every variable keeps its type.                                          *)
THEOREM VaultTypeCorrect == Spec => []TypeOK
<1>1. IInv => TypeOK
  BY DEF IInv
<1> QED
  BY <1>1, Invariant, PTL

(* A get never finds a file encrypted under a key other than the one it    *)
(* has read (credential_store.rs:228-250).                                 *)
THEOREM GetsAlwaysDecrypt == Spec => []GetsDecrypt
<1>1. IInv => GetsDecrypt
  BY DEF IInv, LocalsInv, FilesInv, TypeOK, GetsDecrypt
<1> QED
  BY <1>1, Invariant, PTL

(* A map that differs from another at one place is that map updated there. *)
LEMMA UpdateMap ==
  ASSUME NEW S, NEW F, NEW G, NEW y \in S, NEW v,
         F = [x \in S |-> F[x]], G = [x \in S |-> G[x]],
         \A x \in S : G[x] = IF x = y THEN v ELSE F[x]
  PROVE  G = [F EXCEPT ![y] = v]
  OBVIOUS

(* The vault implements the credential store, whoever races to create its  *)
(* key file and wherever processes die (credential_store.rs:206-352).      *)
THEOREM VaultRefinement == Spec => ImplementsStore
<1> DEFINE bar == [e \in Entries |-> Readable(e)]
<1>1. Init => Store!Init
  BY DEF Init, Store!Init, Readable
<1>2. IInv /\ IInv' /\ [Next]_vars => [Store!Next]_bar
  <2> SUFFICES ASSUME IInv, IInv', [Next]_vars PROVE Store!Next \/ UNCHANGED bar
    OBVIOUS
  <2> USE NoneAssumption DEF IInv, TypeOK, LocalsInv, FilesInv
  <2>1. bar = [e \in Entries |-> IF credFile[e] = None THEN None ELSE credFile[e].secret]
    BY DEF Readable
  <2>2. bar' = [e \in Entries |-> IF credFile'[e] = None THEN None ELSE credFile'[e].secret]
    BY DEF Readable
  <2>3. CASE UNCHANGED credFile
    BY <2>1, <2>2, <2>3
  <2>4. ASSUME NEW p \in Processes, ReplaceCredFile(p) PROVE Store!Next
    <3>1. entry[p] \in Entries /\ secret[p] \in Secrets
      BY <2>4 DEF ReplaceCredFile
    <3>2. credFile' = [credFile EXCEPT ![entry[p]] = [key |-> key[p], secret |-> secret[p]]]
      BY <2>4 DEF ReplaceCredFile
    <3>3. bar' = [bar EXCEPT ![entry[p]] = secret[p]]
      <4> DEFINE file == [key |-> key[p], secret |-> secret[p]]
      <4>1. file \in [key : Processes, secret : Secrets] /\ file.secret = secret[p]
        BY <2>4, <3>1 DEF ReplaceCredFile
      <4>2. file # None
        BY <4>1
      <4>3. credFile' = [credFile EXCEPT ![entry[p]] = file]
        BY <3>2
      <4> HIDE DEF file
      <4>4. ASSUME NEW e \in Entries
            PROVE  bar'[e] = IF e = entry[p] THEN secret[p] ELSE bar[e]
        <5>1. credFile'[e] = IF e = entry[p] THEN file ELSE credFile[e]
          BY <4>3
        <5>2. bar'[e] = IF credFile'[e] = None THEN None ELSE credFile'[e].secret
          BY <2>2
        <5>3. bar[e] = IF credFile[e] = None THEN None ELSE credFile[e].secret
          BY <2>1
        <5> QED
          BY <4>1, <4>2, <5>1, <5>2, <5>3
      <4>5. bar = [e \in Entries |-> bar[e]] /\ bar' = [e \in Entries |-> bar'[e]]
        BY <2>1, <2>2
      <4> HIDE DEF bar
      <4> QED
        BY <3>1, <4>4, <4>5, UpdateMap
    <3> QED
      BY <3>1, <3>3 DEF Store!Next, Store!SetSecret
  <2>5. ASSUME NEW p \in Processes, NEW e \in Entries, RemoveCredFile(p, e) PROVE Store!Next
    <3>1. bar' = [bar EXCEPT ![e] = None]
      <4>1. ASSUME NEW f \in Entries
            PROVE  bar'[f] = IF f = e THEN None ELSE bar[f]
        BY <2>1, <2>2, <2>5 DEF RemoveCredFile
      <4> QED
        BY <2>1, <2>2, <4>1, UpdateMap
    <3> QED
      BY <3>1 DEF Store!Next, Store!DeleteCredential
  <2> QED
    BY <2>3, <2>4, <2>5 DEF Next, vars, localVars, BeginSet, BeginGet, CheckKeyFile,
         LinkKeyFile, LoadKeyFile, ReadCredFile, Fail
<1> QED
  BY <1>1, <1>2, Invariant, PTL DEF Spec, ImplementsStore, Store!Spec
=============================================================================
