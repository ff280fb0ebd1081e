----------------------------- MODULE ChatLedger -----------------------------
(***************************************************************************)
(* What the dotchat server promises about its tables, whatever its threads *)
(* do: nothing in them is ever lost, and each change is one atomic act of  *)
(* a user who has logged in.  Only the owner of a channel lets users in,   *)
(* only a member writes in it, only the user changes the own password.     *)
(* Until the first login the server acts as user 1 to set itself up.       *)
(***************************************************************************)
EXTENDS Naturals, Sequences

CONSTANTS Names, Passwords, ChanNames, Keys

VARIABLES users, channels, members, messages, issued

ledger == << users, channels, members, messages, issued >>

Init ==
  /\ users = << >> /\ channels = << >> /\ messages = << >>
  /\ members = {} /\ issued = {}

\* The users who can act: those a token was issued to.
Acting(u) ==
  /\ u \in DOMAIN users
  /\ \/ \E k \in Keys : << k, u >> \in issued
     \/ issued = {} /\ u = 1

SignUp(n, p) ==
  /\ \A u \in DOMAIN users : users[u].name # n
  /\ users' = Append(users, [name |-> n, pass |-> p])
  /\ UNCHANGED << channels, members, messages, issued >>

LogIn(u, k) ==
  /\ u \in DOMAIN users
  /\ issued' = issued \cup { << k, u >> }
  /\ UNCHANGED << users, channels, members, messages >>

SetPassword(u, p) ==
  /\ Acting(u)
  /\ users' = [users EXCEPT ![u].pass = p]
  /\ UNCHANGED << channels, members, messages, issued >>

Open(u, n) ==
  /\ Acting(u)
  /\ \A c \in DOMAIN channels : channels[c].name # n
  /\ channels' = Append(channels, [name |-> n, owner |-> u])
  /\ UNCHANGED << users, members, messages, issued >>

Admit(u, v, c) ==
  /\ Acting(u) /\ v \in DOMAIN users
  /\ c \in DOMAIN channels /\ channels[c].owner = u
  /\ members' = members \cup { << v, c >> }
  /\ UNCHANGED << users, channels, messages, issued >>

Write(u, c) ==
  /\ Acting(u) /\ << u, c >> \in members
  /\ messages' = Append(messages, [sender |-> u, channel |-> c])
  /\ UNCHANGED << users, channels, members, issued >>

Next ==
  \/ \E n \in Names, p \in Passwords : SignUp(n, p)
  \/ \E u \in DOMAIN users :
       \/ \E k \in Keys : LogIn(u, k)
       \/ \E p \in Passwords : SetPassword(u, p)
       \/ \E n \in ChanNames : Open(u, n)
       \/ \E v \in DOMAIN users, c \in DOMAIN channels : Admit(u, v, c)
       \/ \E c \in DOMAIN channels : Write(u, c)

Spec == Init /\ [][Next]_ledger

=============================================================================
