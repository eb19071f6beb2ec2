---------------------------- MODULE MCLibraries ----------------------------
(***************************************************************************)
(* The libraries under the trackers, for TLC.  They have no state in       *)
(* common: "subject" picks one of them per behaviour.                      *)
(***************************************************************************)
EXTENDS Conhash, SkipList, ConfigBst, ConfigFile, Messages

VARIABLE subject

conhash_vars == <<ring, members>>
skip_list_vars == <<list, stored>>
config_bst_vars == <<bst, items>>
config_file_vars == <<parser, file>>
messages_vars == <<class, here, there>>

Init ==
  /\ subject \in {"conhash", "skip_list", "config_bst", "config_file", "messages"}
  /\ ConhashInit /\ SkipListInit /\ BstInit /\ ConfigFileInit /\ MessagesInit
  /\ subject # "messages" => class = "KeyValuePair"

ConhashStep ==
  /\ subject = "conhash" /\ ConhashNext
  /\ UNCHANGED <<subject, skip_list_vars, config_bst_vars, config_file_vars, messages_vars>>
SkipListStep ==
  /\ subject = "skip_list" /\ SkipListNext
  /\ UNCHANGED <<subject, conhash_vars, config_bst_vars, config_file_vars, messages_vars>>
ConfigBstStep ==
  /\ subject = "config_bst" /\ BstNext
  /\ UNCHANGED <<subject, conhash_vars, skip_list_vars, config_file_vars, messages_vars>>
ConfigFileStep ==
  /\ subject = "config_file" /\ ConfigFileNext
  /\ UNCHANGED <<subject, conhash_vars, skip_list_vars, config_bst_vars, messages_vars>>
MessagesStep ==
  /\ subject = "messages" /\ MessagesNext
  /\ UNCHANGED <<subject, conhash_vars, skip_list_vars, config_bst_vars, config_file_vars>>

Next == ConhashStep \/ SkipListStep \/ ConfigBstStep \/ ConfigFileStep \/ MessagesStep

Spec ==
  Init /\ [][Next]_<<subject, conhash_vars, skip_list_vars, config_bst_vars, config_file_vars,
                     messages_vars>>

\* servers 1 and 3 meet at hash 4
MCHashOf == <<<<1, 8, 4>>, <<6, 2, 11>>, <<12, 9, 4>>, <<3, 7, 10>>>>

MCCharacters == {"a", "b", "=", "#", "space", "quote"}
\* every line of three characters, and some with longer words or a second separator
MCFileLines ==
  UNION {[1 .. n -> MCCharacters] : n \in 0 .. 3}
  \cup {<<"a", "a", "a", "a", "=", "b">>,
        <<"space", "a", "space", "=", "b", "b", "b", "space">>,
        <<"a", "=", "b", "=", "a">>}
=============================================================================
