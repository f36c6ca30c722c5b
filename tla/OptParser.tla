----------------------------- MODULE OptParser ------------------------------
(***************************************************************************)
(* The command line of the program, as the options that getopt returns one *)
(* after another: pairs of a letter and its argument, where any letter     *)
(* that parse() has no case for stands for '?'.  The image is one file, so *)
(* the path that comes with an action is left out.                         *)
(***************************************************************************)
EXTENDS Integers

Actions == [h |-> "DISPLAY_HELP", c |-> "CREATE_DISK", r |-> "READ_DATA",
            w |-> "WRITE_DATA", x |-> "DISPLAY_STATS", l |-> "DISPLAY_FILES",
            d |-> "DELETE_FILE", q |-> "RENAME_FILE", f |-> "FORMAT_DISK"]

Args == [b |-> "block_size", s |-> "length", n |-> "file_inode",
         i |-> "in_file_name"]

NoName  == "nullptr"
NotSeen == [action_type |-> "INVALID_PARSING", block_size |-> -1, length |-> -1,
            file_inode |-> -1, in_file_name |-> NoName]

(* One turn of the loop of parse(): the first action stays, unless an      *)
(* option that is not known takes it back; of the arguments the last stays.*)
ParseLastAction(p, opt) ==                                      \* mutant
  IF opt[1] \in DOMAIN Actions THEN [p EXCEPT !.action_type = Actions[opt[1]]]
  ELSE IF opt[1] \in DOMAIN Args THEN [p EXCEPT ![Args[opt[1]]] = opt[2]]
  ELSE [p EXCEPT !.action_type = "INVALID_PARSING"]
ParseOption(p, opt) ==
  IF opt[1] \in DOMAIN Actions
  THEN IF p.action_type = "INVALID_PARSING"
       THEN [p EXCEPT !.action_type = Actions[opt[1]]] ELSE p
  ELSE IF opt[1] \in DOMAIN Args THEN [p EXCEPT ![Args[opt[1]]] = opt[2]]
  ELSE [p EXCEPT !.action_type = "INVALID_PARSING"]
=============================================================================
