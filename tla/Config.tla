-------------------------------- MODULE Config --------------------------------
(***************************************************************************)
(* Reading the configuration file: read_config_file, the splitting into    *)
(* lines (code/str.h) kept in a list that holds every text once            *)
(* (code/str_list.h), parse_config_file, and the opening of what the file  *)
(* names (code/coragem.c, code/os_linux.c).                                *)
(*                                                                         *)
(* The text of the file is a sequence of words and signs; case, and the    *)
(* blanks around a word, are abstracted.  As in the code, a string is a    *)
(* slice of that text, which nothing terminates: a function of the system  *)
(* that is given its start reads on to the end of the buffer.              *)
(***************************************************************************)
EXTENDS Lines

CONSTANTS
  Texts,        \* the configuration files tried, sequences of words and signs
  Eq, Hash,     \* "=" and "#"
  Default,      \* DEFAULT_ROOT_FOLDER
  Folders       \* the names of directories that can be opened

PlacesKeys  == {"server_port", "server_addr"}
FolderKeys  == {"server_root_folder", "server_working_directory"}
LogKeys     == {"server_error_log", "server_request_log", "server_info_log"}
Keys        == PlacesKeys \cup FolderKeys \cup LogKeys

ASSUME ConfigAssumption ==
  /\ Texts \subseteq Seq(Signs)
  /\ Cardinality({LF, CR, Eq, Hash, Unset}) = 5
  /\ {LF, CR, Eq, Hash, Unset} \cap (Keys \cup {"server_throttle"}) = {}
  /\ \A f \in Folders : \A i \in 1 .. Len(f) : f[i] \notin {LF, CR}

VARIABLES
  lines,        \* config_lines, as slices
  next,         \* the line parse_config_file is at
  value,        \* k_v[VALUE], uninitialized at first
  conf,         \* the slices the keys were given
  throttle,     \* server->throttle, a number read from the wrong place
  opened        \* the log files and folders that are open

\* pc is "open", "split", "parse", "folders", "done" or "crashed".

configVars == <<text, pc, rest, end, lines, next, value, conf, throttle, opened>>

\* A slice goes from its first position to before its second.
Slice    == [from : Nat, to : Nat]
Chars(s) == SubSeq(text, s.from, s.to - 1)

\* What a system call sees that is given the start of a slice.
CString(s) == SubSeq(text, s.from, Len(text))

Slices == {s \in [from : 1 .. Len(text) + 1, to : 1 .. Len(text) + 1] : s.from <= s.to}

ConfigTypeOK ==
  /\ pc \in {"open", "split", "parse", "folders", "done", "crashed"}
  /\ rest \in 1 .. Len(text) + 1 /\ end \in {LF, CR, Unset}
  /\ \A i \in DOMAIN lines : lines[i] \in Slices
  /\ next \in 1 .. Len(lines) + 1
  /\ value \in Slices \cup {Unset}
  /\ DOMAIN conf = Keys /\ \A k \in Keys : conf[k] \in Slices \cup {Unset}
  /\ throttle \in {"zero", "garbage"}
  /\ DOMAIN opened = FolderKeys \cup LogKeys
-----------------------------------------------------------------------------
ConfigInit ==
  /\ text \in Texts
  /\ pc = "open" /\ rest = 1 /\ end = CR /\ lines = <<>> /\ next = 1
  /\ value = Unset /\ conf = [k \in Keys |-> Unset] /\ throttle = "zero"
  /\ opened = [k \in FolderKeys \cup LogKeys |-> Unset]

\* read_config_file.  A file that cannot be opened or is empty is no error:
\* the server starts without logs, and without a folder.
Open ==
  /\ pc = "open"
  /\ \/ text # <<>> /\ pc' = "split"
     \/ pc' = "done"
  /\ UNCHANGED <<text, rest, end, lines, next, value, conf, throttle, opened>>

\* str_list_add_from_str: a text that is in the list is not added again.
WithLine(ls, line) == IF \E i \in DOMAIN ls : Chars(ls[i]) = Chars(line)
                   THEN ls ELSE Append(ls, line)

\* One round of str_list_build_from_lines: str_split_line, then the list.
\* The empty string without an address that the last round adds is a line
\* nothing is read from, and is left out.
BuildLines ==
  /\ pc = "split"
  /\ LET l == NextLine(text, rest, end)
     IN IF l = Unset
        THEN pc' = "parse" /\ UNCHANGED <<rest, end, lines>>
        ELSE /\ pc' = pc
             /\ lines' = WithLine(lines, [from |-> l.from, to |-> l.to])
             /\ rest' = l.rest /\ end' = l.end
  /\ UNCHANGED <<text, next, value, conf, throttle, opened>>
-----------------------------------------------------------------------------
IsComment(l) == l.from < l.to /\ text[l.from] = Hash

Equals(l) == {i \in l.from .. l.to - 1 : text[i] = Eq}

\* str_split_all into two: the text before the first "=" ...
KeyOf(l) == IF Equals(l) = {} THEN l ELSE [from |-> l.from, to |-> LowestOf(Equals(l))]

\* Fault: the start moves on even if nothing is left.
ValueOfBehind(l) == [from |-> LowestOf(Equals(l)) + 2, to |-> l.to]

\* ... and that between it and the second one, if there is any.
ValueOf(l) ==
  LET first == LowestOf(Equals(l))
      more  == Equals(l) \ {first}
  IN [from |-> first + 1, to |-> IF more = {} THEN l.to ELSE LowestOf(more)]

\* The value the line is read with: its own, or what an earlier one left.
Found(l) == IF Equals(l) = {} THEN value ELSE ValueOf(l)

\* Fault: the first of several folders and logs counts.
SetKeepsFirst(key, v) ==
  conf' = IF conf[key] = Unset THEN [conf EXCEPT ![key] = v] ELSE conf

\* The port and the address keep the first value that is not empty, the
\* others the last.
Set(key, v) ==
  conf' = IF key \in PlacesKeys /\ conf[key] # Unset /\ Chars(conf[key]) # <<>>
          THEN conf ELSE [conf EXCEPT ![key] = v]

Skip == UNCHANGED <<value, conf, throttle>>

\* What a line that is no comment does, read with value v.  The number of
\* server_throttle is read 48 bytes before its digits.
Assign(l, v) ==
  /\ value' = IF Equals(l) = {} THEN value ELSE v
  /\ \/ /\ \E k \in Keys : Chars(KeyOf(l)) = <<k>> /\ Set(k, v)
        /\ throttle' = throttle
     \/ /\ Chars(KeyOf(l)) = <<"server_throttle">>
        /\ throttle' \in IF throttle = "zero" THEN {"zero", "garbage"} ELSE {throttle}
        /\ conf' = conf
     \/ /\ \A k \in Keys \cup {"server_throttle"} : Chars(KeyOf(l)) # <<k>>
        /\ UNCHANGED <<conf, throttle>>

\* One round of the loop of parse_config_file.  A line without "=" before
\* any line with one has the uninitialized value trimmed: the program dies
\* or goes on with an empty text.
ParseLine ==
  /\ pc = "parse"
  /\ next <= Len(lines)
  /\ next' = next + 1
  /\ LET l == lines[next] IN
     \/ IsComment(l) /\ Skip /\ pc' = pc
     \/ /\ ~IsComment(l) /\ pc' = pc
        /\ Assign(l, IF Found(l) = Unset THEN [from |-> l.to, to |-> l.to] ELSE Found(l))
     \/ ~IsComment(l) /\ Found(l) = Unset /\ Skip /\ pc' = "crashed"
  /\ UNCHANGED <<text, rest, end, lines, opened>>

\* openLog: the path is copied and terminated before it is opened; the
\* system may refuse.
OpenLog(s) == IF s = Unset THEN {Unset}
              ELSE IF Chars(s) = <<>> THEN {Unset} ELSE {Chars(s), Unset}

OpenLogs ==
  /\ pc = "parse"
  /\ next > Len(lines)
  /\ pc' = "folders"
  /\ \E info    \in OpenLog(conf["server_info_log"]),
        error   \in OpenLog(conf["server_error_log"]),
        request \in OpenLog(conf["server_request_log"]) :
       opened' = [opened EXCEPT !["server_info_log"]    = info,
                                !["server_error_log"]   = error,
                                !["server_request_log"] = request]
  /\ UNCHANGED <<text, rest, end, lines, next, value, conf, throttle>>

\* osOpenFile_impl, which errors it tells apart left out.
Opens(path) == path \in Folders

\* osOpenDirectory: the path is not terminated where the slice ends.
OpenDirectory(s) == IF Opens(CString(s)) THEN Chars(s) ELSE Unset

\* The end of parse_config_file.  Without a line for it, the root folder is
\* the one the program was built with.
OpenFolders ==
  /\ pc = "folders"
  /\ pc' = "done"
  /\ opened' = [k \in FolderKeys \cup LogKeys |->
                  CASE k \in FolderKeys /\ conf[k] # Unset  -> OpenDirectory(conf[k])
                    [] k = "server_root_folder" /\ conf[k] = Unset -> Default
                    [] OTHER -> opened[k]]
  /\ UNCHANGED <<text, rest, end, lines, next, value, conf, throttle>>

ConfigNext == Open \/ BuildLines \/ ParseLine \/ OpenLogs \/ OpenFolders

ConfigSpec == ConfigInit /\ [][ConfigNext]_configVars /\ WF_configVars(ConfigNext)
-----------------------------------------------------------------------------
(* What the file says, defined on the whole text at once.                  *)

FileLines   == {LineOf(text, e) : e \in LineEnds(text)}
FirstLines  == {l \in FileLines : \A k \in FileLines : k.to < l.to => Chars(k) # Chars(l)}

\* Splitting finds every line of the file, whichever of LF, CR and their
\* two pairs ends it, once and in order, and nothing else
\* (str_list_build_from_lines, str_split_line, str_list_add_from_str).
LinesAreTheFile ==
  pc = "parse" =>
    /\ {lines[i] : i \in DOMAIN lines} = FirstLines
    /\ \A i, j \in DOMAIN lines : i < j => lines[i].to < lines[j].to

First(S) == CHOOSE x \in S : \A y \in S : x.to <= y.to
Last(S)  == CHOOSE x \in S : \A y \in S : y.to <= x.to

\* The lines up to l that have a value, and what l is read with: the value of
\* the last of them, or an empty text if there is none.
Sources(l) == {m \in FirstLines : ~IsComment(m) /\ Equals(m) # {} /\ m.to <= l.to}
ReadWith(l) == IF Sources(l) = {} THEN [from |-> l.to, to |-> l.to] ELSE ValueOf(Last(Sources(l)))

\* The values the lines for key k give it.  A line whose text an earlier one
\* has gives nothing.
Given(k) == {ReadWith(l) : l \in {m \in FirstLines : ~IsComment(m) /\ Chars(KeyOf(m)) = <<k>>}}

\* Whatever the file holds, the port and the address are the first that it
\* gives, folders and logs the last, and a key of which it says nothing has
\* no value.  A line without an "=" repeats the value before it, and of lines
\* with the same text only the first counts (parse_config_file,
\* str_list_add_from_str).
ReadAsWritten ==
  pc = "done" /\ lines # <<>> =>
    \A k \in Keys :
      LET given  == Given(k)
          filled == {v \in given : Chars(v) # <<>>}
      IN conf[k] = CASE given = {} -> Unset
                     [] k \in PlacesKeys /\ filled # {} -> First(filled)
                     [] OTHER -> Last(given)

\* Reading ends, whatever the file holds (the loops of
\* str_list_build_from_lines and parse_config_file).
ReadingEnds == <>(pc \in {"done", "crashed"})

\* A root folder that the file names and that exists is opened.
RootIsServed ==
  LET k == "server_root_folder" IN
  pc = "done" /\ conf[k] # Unset /\ Chars(conf[k]) \in Folders => opened[k] = Chars(conf[k])
=============================================================================
