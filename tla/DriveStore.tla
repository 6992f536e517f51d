------------------------------ MODULE DriveStore ------------------------------
(***************************************************************************)
(* What the Drive plugin's sync promises its callers, without the polling, *)
(* the walk or the file system: one store, and calls that either commit a  *)
(* state to it and are answered with exactly that state, or are refused    *)
(* and leave it alone.  The store never forgets how far into the change    *)
(* feed it had come, not even across a crash.  DriveSync implements this.  *)
(***************************************************************************)
EXTENDS Integers

CONSTANTS
  Calls,     \* RPC handlers that may be syncing
  States,    \* well-formed sync states, with fields root, token and via
  Unusable,  \* what the store may hold instead: nothing, or garbage
  NoReply,   \* the call has not been answered
  Failed     \* the call was answered with an error

VARIABLES store, answer

storeVars == <<store, answer>>

StoreInit ==
  /\ store \in Unusable
  /\ answer = [c \in Calls |-> NoReply]

\* A state may follow the stored one if it knows at least as much of the
\* feed; one derived by applying changes extends what was stored.
MayFollow(s) ==
  /\ store \in States => s.token >= store.token
  /\ s.via = "delta" => store \in States /\ s.root = store.root

Commit(c) ==
  /\ store' \in States
  /\ MayFollow(store')
  /\ answer' = [answer EXCEPT ![c] = store']

Refuse(c) ==
  /\ answer' = [answer EXCEPT ![c] = Failed]
  /\ UNCHANGED store

Collect(c) ==
  /\ answer' = [answer EXCEPT ![c] = NoReply]
  /\ UNCHANGED store

Crash ==
  /\ answer' = [c \in Calls |-> NoReply]
  /\ UNCHANGED store

StoreNext == Crash \/ \E c \in Calls : Commit(c) \/ Refuse(c) \/ Collect(c)

StoreSpec == StoreInit /\ [][StoreNext]_storeVars
=============================================================================
