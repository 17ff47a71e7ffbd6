---------------------------- MODULE MCPublication ----------------------------
EXTENDS Publication

MCOptions == {"location_enabled", "poll_map", "webhook_url", "token"}
MCInitial == [o \in MCOptions |-> 1]
MCPatches == {[location_enabled |-> 0], [location_enabled |-> 1, poll_map |-> 2],
              [poll_map |-> 3], [poll_map |-> 0], [token |-> 0]}
=============================================================================
