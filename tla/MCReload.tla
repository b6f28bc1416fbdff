------------------------------ MODULE MCReload ------------------------------
(* Reload on small files: a head that varies in what is taken over, what needs a *)
(* restart and what is neither, and none to three servers.                       *)
EXTENDS Reload, TLC

CONSTANTS today, other, fallback

MCEnv == <<"a">> :> <<"v">>
MCFiles == {today, other, fallback}
MCPathAt == (<<"daily", 0>> :> today) @@ (<<"weekly", 0>> :> other)

Key(k, v) == <<"key", k, v>>
Section(n) == <<"section", n>>

Top == <<Section("pgvictoria"), Key("host", "*"), Key("unix_socket_dir", "/tmp"),
         Key("log_type", "file")>>
Heads == {Top \o x : x \in {<<Key("log_path", "daily"), Key("log_level", "warn")>>,
                             <<Key("log_path", "weekly"), Key("log_level", "debug9"),
                               Key("log_rotation_size", <<"1", "k">>), <<"junk">>>>,
                             <<Key("log_path", "daily"), Key("log_line_prefix", "p"),
                               Key("libev", "epoll"), Key("log_mode", "create")>>}}
         \cup {<<Section("pgvictoria"), Key("host", "*")>>}

Server(n, u) == <<Section(n), Key("host", "h"), Key("port", <<"1">>), Key("user", u)>>
ServerLists == {<<>>, <<Section("pgvictoria"), Key("user", "u1")>>,
                Server("a", "u2"), Server("all", "u1"),
                Server("a", "u1") \o Server("b", "u2"),
                Server("a", "u1") \o <<Section("b"), Key("host", "h"), Key("user", "u1")>>,
                Server("a", "u1") \o Server("b", "u2") \o Server("c", "u1")}
Tails == {<<>>, <<Section("pgvictoria"), Key("update_process_title", "strict"),
                  Key("hugepage", "off")>>}

MCMainFiles == {h \o s : h \in Heads, s \in ServerLists}
               \cup {h \o Server("a", "u1") \o t : h \in Heads, t \in Tails}

\* What ServersInForce asks of the files, they are.
ASSUME FilesOrderly == \A file \in MainFiles : Orderly(file)

Entries(es) == [state |-> "ok", entries |-> es]
MCUsersFiles == {Entries(<<<<"u1", "w1">>>>), Entries(<<<<"u2", "w1">>, <<"u1", "w2">>>>),
                 Entries(<<<<"longer", "w1">>, <<"u1", "w1">>>>),
                 Entries(<<<<"u1", "w1">>, <<"u2", "w1">>, <<"u3", "w1">>>>),
                 [state |-> "missing", entries |-> <<>>], [state |-> "nokey", entries |-> <<>>],
                 [state |-> "badline", entries |-> <<<<"u1", "w1">>>>]}
=============================================================================
