-------------------------- MODULE MCConfiguration --------------------------
(* Starts of both programs for TLC.                                        *)
EXTENDS Configuration

AllTexts == STRING

\* An option that is left out or has one of these values.
Maybe(S) == {<<>>} \cup {<<v>> : v \in S}

NoEnv == [key |-> <<>>, interval |-> <<>>, STORE_FILE |-> <<>>,
          FILE_STORAGE_PATH |-> <<>>, restore |-> <<>>, rate |-> <<>>]
OtherFile == [NoFile EXCEPT !.key = <<"other">>]

ServerFiles ==
    [A : [key : Maybe({"file"}), interval : Maybe({1, -1}), path : Maybe({"", "file"}),
          restore : Maybe({"false"}), rate : {<<>>}]]
ServerFlags ==
    [key : Maybe({"", "flag"}), interval : Maybe({0, -1}), path : Maybe({"", "flag"}),
     restore : Maybe({"true"}), rate : {<<>>}]
ServerEnv ==
    [key : Maybe({"env"}), interval : Maybe({2, -1}), STORE_FILE : Maybe({"store"}),
     FILE_STORAGE_PATH : Maybe({"path"}), restore : Maybe({"false", "invalid"}), rate : {<<>>}]

AgentFiles ==
    [A : [key : Maybe({"file"}), interval : Maybe({0, 1}), path : {<<>>},
          restore : {<<>>}, rate : Maybe({0, 2})]]
AgentFlags ==
    [key : Maybe({"", "flag"}), interval : Maybe({0, 1, 20}), path : {<<>>},
     restore : {<<>>}, rate : Maybe({0, 3})]
AgentEnv ==
    [key : Maybe({"env"}), interval : Maybe({0, 2}), STORE_FILE : {<<>>},
     FILE_STORAGE_PATH : {<<>>}, restore : {<<>>}, rate : Maybe({0, 4})]

\* Several files are named, one of which cannot be read.
NamedFiles == UNION {[1..n -> {"", "A", "B", "none"}] : n \in 0..3}

Starts ==
    [program : {"server"}, named : {<<>>, <<"A">>}, CONFIG : {<<>>},
     files : ServerFiles, flags : ServerFlags, env : ServerEnv]
    \cup
    [program : {"agent"}, named : {<<>>, <<"A">>}, CONFIG : {<<>>},
     files : AgentFiles, flags : AgentFlags, env : AgentEnv]
    \cup
    [program : {"server", "agent"}, named : NamedFiles, CONFIG : Maybe({"A", "B", "none"}),
     files : {[A |-> [NoFile EXCEPT !.key = <<"file">>], B |-> OtherFile]},
     flags : {NoFile, [NoFile EXCEPT !.key = <<"flag">>]}, env : {NoEnv}]

============================================================================
