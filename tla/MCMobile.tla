------------------------------- MODULE MCMobile -------------------------------
(* Instances of MobileClient: what its stacks are used for. *)
EXTENDS MobileClient

MCSlots == [poll |-> {1}, turn |-> {2, 3}, violation |-> {4, 5}, end |-> {6}]
MCPacks == [g1 |-> [topics |-> {"hld", "dsa"}, levels |-> <<"mid">>,
                    subs |-> [hld |-> {"storage"}, dsa |-> {}], behavioral |-> TRUE],
            g2 |-> [topics |-> {"hr"}, levels |-> <<>>,
                    subs |-> [hr |-> {}], behavioral |-> FALSE]]
MCInterviewWorkloads == {{"new", "back", "lose"}, {"new", "resume"}, {"new", "buy"},
                         {"new", "permissions"}, {"camera"}, {"away", "end", "warned"},
                         {"end", "lose"}, {"end", "slow"}, {"text", "behavioral"},
                         {"voice", "hasty"}}

MCChatWorkloads == {{"back"}, {"back", "stop"}, {"stop", "new"}, {"refuse", "stop"},
                    {"lose", "new"}, {"attach", "back"}, {"models"}, {"delete", "reload"}}
MCSessionWorkloads == {{"calls", "logout"}, {"calls", "killed"}, {"password", "logout", "device"},
                       {"social", "apple"}, {"forgot", "lose"}, {"calls", "credits", "drawer"}}
MCBillingWorkloads == {{"ios", "switch"}, {"ios", "lose"}, {"android", "payg"}, {"android", "wallet"},
                       {"hosted", "payg", "lose"}}
=============================================================================
