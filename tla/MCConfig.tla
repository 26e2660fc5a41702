------------------------------- MODULE MCConfig -------------------------------
(* Files of up to three lines, each ended by LF, by CR LF, or in the last   *)
(* place not at all, with comments, blank lines, lines without "=" and      *)
(* repeated keys.                                                           *)
EXTENDS Config

MCContents ==
  { <<>>, <<Hash, "server_port", Eq, "a">>, <<"server_port">>,
    <<"server_port", Eq>>, <<"server_port", Eq, "a">>, <<"server_port", Eq, "b">>,
    <<"server_throttle", Eq, "a">>, <<"server_root_folder", Eq, "a">>,
    <<"server_root_folder", Eq, "b", Eq, "a">>, <<"server_info_log", Eq, "b">> }
MCLines == {c \o e : c \in MCContents, e \in {<<LF>>, <<CR, LF>>}}

MCTexts == {<<>>} \cup MCContents \cup MCLines
             \cup {l \o m : l \in MCLines, m \in MCLines \cup MCContents}
             \cup {l \o m \o n : l, m, n \in MCLines}
             \cup {<<CR>> \o l : l \in MCLines}
             \cup {<<LF, CR>> \o l : l \in MCLines}
             \cup {l \o <<CR, CR, LF, CR, LF, LF>> : l \in MCLines}

MCSigns == {LF, CR, Eq, Hash, "a", "b"} \cup Keys \cup {"server_throttle"}

MCFolders == {<<"a">>, <<"b">>}
=============================================================================
