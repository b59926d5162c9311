-------------------------- MODULE CredentialStore --------------------------
(***************************************************************************)
(* What the credential store promises to the rest of shex, whichever       *)
(* backend is behind it: a map from entries to secrets, in which set_secret *)
(* and delete_credential take effect at once and on their entry only.      *)
(***************************************************************************)
CONSTANTS
  Entries,    \* pairs of service and user
  Secrets,    \* what may be stored
  None        \* nothing stored

VARIABLE secrets

Init == secrets = [e \in Entries |-> None]

SetSecret(e, s) == secrets' = [secrets EXCEPT ![e] = s]

DeleteCredential(e) == secrets' = [secrets EXCEPT ![e] = None]

Next ==
  \E e \in Entries : DeleteCredential(e) \/ \E s \in Secrets : SetSecret(e, s)

Spec == Init /\ [][Next]_secrets
=============================================================================
