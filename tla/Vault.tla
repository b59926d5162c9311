------------------------------- MODULE Vault -------------------------------
(***************************************************************************)
(* The encrypted-file backend of the credential store: one key file for    *)
(* the whole store directory, made by whichever shex process first needs   *)
(* it, and one file per entry, encrypted under that key.  Several shex     *)
(* processes use the directory at once and any of them may die or fail at  *)
(* any step.                                                               *)
(*                                                                         *)
(* A key is named by the process that drew it.  A temporary file has a     *)
(* random name of its own, which makes it a local variable of its process, *)
(* and one that is left behind is never read.  The steps are those that    *)
(* look at or change the directory entries all processes share.            *)
(***************************************************************************)
CONSTANTS
  Processes,  \* running shex commands
  Entries, Secrets, None

ASSUME NoneAssumption ==
  /\ None \notin Secrets \cup Processes \cup Entries
  /\ None \notin [key : Processes, secret : Secrets]

VARIABLES
  keyFile,    \* credential.key: the process that drew the key in it
  credFile,   \* each entry's file: the key it is encrypted under, the secret
  at,         \* where each process is
  entry,      \* the entry it works on
  secret,     \* the secret it stores
  key         \* the key it has drawn or read

localVars == <<at, entry, secret, key>>
vars == <<keyFile, credFile, localVars>>

Init ==
  /\ keyFile = None
  /\ credFile = [e \in Entries |-> None]
  /\ at = [p \in Processes |-> "idle"]
  /\ entry = [p \in Processes |-> None]
  /\ secret = [p \in Processes |-> None]
  /\ key = [p \in Processes |-> None]

Goto(p, place) == at' = [at EXCEPT ![p] = place]

(* The call is over, and its local variables with it.                      *)
Return(p) ==
  /\ Goto(p, "idle")
  /\ entry' = [entry EXCEPT ![p] = None]
  /\ secret' = [secret EXCEPT ![p] = None]
  /\ key' = [key EXCEPT ![p] = None]
-----------------------------------------------------------------------------
(* set_secret.                                                             *)

BeginSet(p, e, s) ==
  /\ at[p] = "idle"
  /\ Goto(p, "check")
  /\ entry' = [entry EXCEPT ![p] = e]
  /\ secret' = [secret EXCEPT ![p] = s]
  /\ UNCHANGED <<keyFile, credFile, key>>

(* Is there a key file?  If not, draw a key and write it to a temporary    *)
(* file.                                                                   *)
CheckKeyFile(p) ==
  /\ at[p] = "check"
  /\ \/ /\ keyFile # None
        /\ Goto(p, "load")
        /\ UNCHANGED key
     \/ /\ keyFile = None
        /\ Goto(p, "link")
        /\ key' = [key EXCEPT ![p] = p]
  /\ UNCHANGED <<keyFile, credFile, entry, secret>>

(* Mutant: the temporary file is renamed to the key file.                  *)
RenameKeyFile(p) ==
  /\ at[p] = "link"
  /\ keyFile' = key[p]
  /\ Goto(p, "write")
  /\ UNCHANGED <<credFile, entry, secret, key>>

(* Mutant: a process that finds the key file taken goes on with its own    *)
(* key.                                                                    *)
LinkOrKeepOwnKey(p) ==
  /\ at[p] = "link"
  /\ keyFile' = IF keyFile = None THEN key[p] ELSE keyFile
  /\ Goto(p, "write")
  /\ UNCHANGED <<credFile, entry, secret, key>>

(* hard_link of the temporary file, which fails if another process has     *)
(* been faster.                                                            *)
LinkKeyFile(p) ==
  /\ at[p] = "link"
  /\ \/ /\ keyFile = None
        /\ keyFile' = key[p]
        /\ Goto(p, "write")
     \/ /\ keyFile # None
        /\ Goto(p, "load")
        /\ UNCHANGED keyFile
  /\ UNCHANGED <<credFile, entry, secret, key>>

LoadKeyFile(p) ==
  /\ at[p] = "load"
  /\ key' = [key EXCEPT ![p] = keyFile]
  /\ Goto(p, "write")
  /\ UNCHANGED <<keyFile, credFile, entry, secret>>

(* Encrypt, write a temporary file, and rename it to the entry's file.     *)
ReplaceCredFile(p) ==
  /\ at[p] = "write"
  /\ credFile' = [credFile EXCEPT ![entry[p]] = [key |-> key[p], secret |-> secret[p]]]
  /\ Return(p)
  /\ UNCHANGED keyFile
-----------------------------------------------------------------------------
(* get_secret and delete_credential.                                       *)

(* get_secret reads the key file first, and fails if there is none.        *)
BeginGet(p, e) ==
  /\ at[p] = "idle"
  /\ keyFile # None
  /\ key' = [key EXCEPT ![p] = keyFile]
  /\ Goto(p, "read")
  /\ entry' = [entry EXCEPT ![p] = e]
  /\ UNCHANGED <<keyFile, credFile, secret>>

(* Then it reads the entry's file and decrypts it, or fails.               *)
ReadCredFile(p) ==
  /\ at[p] = "read"
  /\ Return(p)
  /\ UNCHANGED <<keyFile, credFile>>

RemoveCredFile(p, e) ==
  /\ at[p] = "idle"
  /\ credFile[e] # None
  /\ credFile' = [credFile EXCEPT ![e] = None]
  /\ UNCHANGED <<keyFile, localVars>>

(* The process dies, or a call into the file system fails.                 *)
Fail(p) ==
  /\ at[p] # "idle"
  /\ Return(p)
  /\ UNCHANGED <<keyFile, credFile>>
-----------------------------------------------------------------------------
Next ==
  \E p \in Processes :
    \/ \E e \in Entries :
         \/ \E s \in Secrets : BeginSet(p, e, s)
         \/ BeginGet(p, e)
         \/ RemoveCredFile(p, e)
    \/ CheckKeyFile(p) \/ LinkKeyFile(p) \/ LoadKeyFile(p) \/ ReplaceCredFile(p)
    \/ ReadCredFile(p)
    \/ Fail(p)

Spec == Init /\ [][Next]_vars
-----------------------------------------------------------------------------
(* Properties.                                                             *)

TypeOK ==
  /\ keyFile \in Processes \cup {None}
  /\ credFile \in [Entries -> [key : Processes, secret : Secrets] \cup {None}]
  /\ at \in [Processes -> {"idle", "check", "link", "load", "write", "read"}]
  /\ entry \in [Processes -> Entries \cup {None}]
  /\ secret \in [Processes -> Secrets \cup {None}]
  /\ key \in [Processes -> Processes \cup {None}]

(* A get that finds its entry's file can decrypt it, although it read the  *)
(* key file before and others were creating the key or storing the entry   *)
(* meanwhile (credential_store.rs:228-250, 259-291).                       *)
GetsDecrypt ==
  \A p \in Processes :
    at[p] = "read" /\ credFile[entry[p]] # None => credFile[entry[p]].key = key[p]

(* What a get of the entry would return now.  A file under another key is  *)
(* lost: None and the secrets are not pairs.                               *)
Readable(e) ==
  IF credFile[e] = None THEN None
  ELSE IF credFile[e].key = keyFile THEN credFile[e].secret
  ELSE <<"lost", e>>

Store == INSTANCE CredentialStore
  WITH secrets <- [e \in Entries |-> Readable(e)]

(* The vault is a credential store: however many processes race to create  *)
(* its key file, and wherever they die, no secret that has been stored     *)
(* becomes unreadable or changes but by set_secret and delete_credential   *)
(* of its entry (credential_store.rs:206-352).                             *)
ImplementsStore == Store!Spec
=============================================================================
