----------------------- MODULE MCMachineProvisioning -----------------------
(* MachineProvisioning for TLC: a pool for each of two NICs, two images. *)
EXTENDS MachineProvisioning

MCNetworks == <<<<1>>, <<>>>>

MCPools == {<<0, "ipv4">>, <<1, "ipv6">>}

MCImages == [id \in 1..3 |-> [location |-> "here", named |-> TRUE, date |-> id]]

labelled(id, keys) == {[type |-> "image", id |-> id, key |-> key, value |-> "x"] : key \in keys}

\* Image 3 is the newest, and has only one of the labels.
someLabels == labelled(1, {"os", "arch"}) \cup labelled(2, {"os", "arch"}) \cup labelled(3, {"os"})

spec(policy) == [ID |-> NoImage, matchLabels |-> {<<"os", "x">>, <<"arch", "x">>},
                 policy |-> policy, useMachineVersion |-> FALSE]

\* Two images match: the newest is taken, or none may be.
MCSelections == {[labels |-> someLabels, image |-> spec("Newest")],
                 [labels |-> someLabels, image |-> spec("Exact")]}
=============================================================================
