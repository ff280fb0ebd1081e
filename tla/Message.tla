------------------------------ MODULE Message -------------------------------
(***************************************************************************)
(* A message as the program holds it.  A name the protocol fixes (a        *)
(* command, a key) is a text of one byte, its place in Names; other texts  *)
(* are sequences of bytes.  A value is [type, val], where the val of a     *)
(* SUB_OBJECT maps texts to values and that of a LIST is a sequence of     *)
(* values.                                                                 *)
(***************************************************************************)
EXTENDS Integers, Sequences, SequencesExt

\* The keys in the order of std::map, then the commands.
Names ==
  <<"chan_id", "cnt", "data", "desc", "id", "members", "msg_cnt", "msgs",
    "mutual_channels", "name", "new_pass", "owner_id", "pass", "reason",
    "sender", "token", "uid", "user", "when",
    "login", "logout", "channel_list", "channel_msg", "send_msg",
    "channel_details", "new_channel", "new_user", "change_pass",
    "user_details", "invite_user", "ok", "err">>

Name(n) == <<CHOOSE i \in DOMAIN Names : Names[i] = n>>

Arg(type, val) == [type |-> type, val |-> val]

\* The string is constructed from a char *, so it ends at the first NUL.
CString(t) ==
  IF 0 \in Range(t)
  THEN SubSeq(t, 1, SelectInSeq(t, LAMBDA c : c = 0) - 1)
  ELSE t

=============================================================================
