---------------------------- MODULE MCChatServer ----------------------------
(***************************************************************************)
(* Instances of ChatServer for TLC.  The sets of commands choose which     *)
(* handlers a run lets race each other; Symmetry permutes the workers, and *)
(* the keys, which differ in nothing: a key is only compared with keys     *)
(* (used by runs without liveness properties).                             *)
(***************************************************************************)
EXTENDS ChatInvariant, TLC

\* Who is logged in as whom.
AccountCommands == {"login", "logout", "new_user", "change_pass"}

\* Who may enter a channel and write in it, and what the queries show of it.
ChannelCommands ==
  {"login", "new_user", "new_channel", "invite_user", "send_msg",
   "channel_msg", "channel_list", "channel_details", "user_details"}

\* What a thread must get to the end of; and what login alone does not.
LiveCommands ==
  {"login", "logout", "new_channel", "send_msg", "unknown", "malformed"}
LoginCommands == {"login"}

\* Two orders of the CREATE TABLEs: the order of make_storage, and the one in
\* which a schema cut short lets nobody sign up.
UserFirst == << "user", "session_key", "channel", "channel_member", "message" >>
UserLast  == << "session_key", "channel", "channel_member", "message", "user" >>

Symmetry == Permutations(Workers) \cup Permutations(Keys)

=============================================================================
