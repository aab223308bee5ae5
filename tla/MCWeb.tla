-------------------------------- MODULE MCWeb --------------------------------
(* Instances of WebClient: what its pages are used for. *)
EXTENDS WebClient

MCSlots == [load |-> {1}, poll |-> {2}, start |-> {3}, turn |-> {4, 5}, language |-> {6},
            ack |-> {7}, end |-> {8}, violation |-> {9, 10}]
MCRoomWorkloads == {{"text", "voice"}, {"voice", "switch", "leave"}, {"camera", "window"},
                    {"code", "language", "behavioral"}, {"retry", "leave", "lose"},
                    {"switch", "end"}, {"voice"}, {"text"}, {"window"}}

\* The session was just created, or the page is reloaded in the middle of it, which may
\* be while the last warning has the clock stopped.
Fresh == [status |-> "created", warnings |-> 0, paused |-> FALSE]
Reloaded(n) == [status |-> "technical_in_progress", warnings |-> n, paused |-> n = 2]
MCOpenings ==
    [w \in MCRoomWorkloads |->
        IF w \in {{"text"}, {"voice"}} THEN {Fresh}
        ELSE IF w = {"window"} THEN {Reloaded(2)}
        ELSE IF w \cap {"text", "voice", "camera"} # {} THEN {Reloaded(1)}
        ELSE {Fresh, Reloaded(1)}]

MCPacks == [g1 |-> [topics |-> <<"hld", "dsa">>, levels |-> <<"mid">>,
                    subs |-> [hld |-> {"storage"}, dsa |-> {}], behavioral |-> TRUE],
            g2 |-> [topics |-> <<"hr">>, levels |-> <<"mid">>,
                    subs |-> [hr |-> {}], behavioral |-> FALSE]]
MCInterviewWorkloads == {{"packs"}, {"cv"}, {"switch", "refused"}, {"network"}, {"leave", "tab"},
                         {"lose"}, {"report", "clips", "leave", "lose"}, {"buy", "lose"},
                         {"admin"}, {"resume"}}

MCChatWorkloads == {{"send", "new"}, {"open", "new"}, {"send", "edit", "open"},
                    {"send", "edit", "lose"}, {"mention", "send"}, {"attach", "send", "models"},
                    {"send", "delete"}, {"send", "refuse"}, {"send", "flag"},
                    {"pin", "send", "new"}, {"delete", "open", "lose"}, {"flag", "open", "lose"},
                    {"pin", "lose"}}

MCProblems == [c1 |-> [question_type |-> "code", languages |-> <<"python", "java">>, diagram |-> FALSE],
               c2 |-> [question_type |-> "code", languages |-> <<"java">>, diagram |-> FALSE],
               q  |-> [question_type |-> "sql", languages |-> <<"sql">>, diagram |-> FALSE],
               m  |-> [question_type |-> "mcq", languages |-> <<>>, diagram |-> FALSE],
               d  |-> [question_type |-> "design", languages |-> <<>>, diagram |-> TRUE],
               e  |-> [question_type |-> "design", languages |-> <<>>, diagram |-> FALSE]]
MCPracticeWorkloads == {{"c1", "c2"}, {"c1", "q", "run", "contest"}, {"c1", "m"}, {"q", "d"},
                        {"q", "submissions", "c2"}, {"d", "e", "lose"}, {"m", "d", "e"},
                        {"c1", "run", "lose"}}

MCSessionWorkloads == {{"calls", "logout"}, {"room", "signin"}, {"calls", "deleted"},
                       {"calls", "lose"}, {"calls", "credits", "shell"}, {"signin", "social"},
                       {"forgot", "signin"}, {"again", "signin", "logout"}, {"again", "social"},
                       {"link"}, {"bridge"}}

MCCodePacks == [ten |-> {"p1"}, half |-> {"p2"}]
MCBillingWorkloads == {{"buy", "discount"}, {"buy", "reprice"}, {"buy", "payg"}, {"buy", "lose"},
                       {"wallet"}}

MCCatalogue == [github  |-> [auth |-> "oauth", configured |-> TRUE, category |-> "dev"],
                slack   |-> [auth |-> "oauth", configured |-> TRUE, category |-> "team"],
                shopify |-> [auth |-> "domain", configured |-> TRUE, category |-> "trade"],
                trello  |-> [auth |-> "token", configured |-> TRUE, category |-> "team"],
                stripe  |-> [auth |-> "key", configured |-> TRUE, category |-> "trade"],
                soon    |-> [auth |-> "oauth", configured |-> FALSE, category |-> "team"]]
MCConnectorWorkloads == {{"github", "slack"}, {"trello", "shopify", "blocked"}, {"stripe", "lose"},
                         {"trello", "lose"}, {"stripe", "soon", "link"},
                         {"slack", "paused", "lose"}, {"stripe", "soon", "find"},
                         {"prompt", "lose"}}

\* One place is left in the team of the host.
MCContestWorkloads == {{"hosted", "u1", "u2", "u3", "join"}, {"hosted", "u1", "u2", "join", "solo"},
                       {"hosted", "u1", "u2", "join", "again", "lose"},
                       {"hosted", "u1", "join", "solo", "refresh", "again"},
                       {"create", "mates", "u1", "u2", "ends"},
                       {"visit", "create", "u1", "refresh", "ask", "lose"}}
=============================================================================
