--------------------------- MODULE MCRouterControl ---------------------------
EXTENDS RouterControl, TLC

(* A client with an old double schedule of Starwatch's; two networks of one *)
(* band, both with a secret; both widths set.                              *)
MCInitial ==
  [f \in Fields |->
     CASE f[2] \in {"user", "hidden"} -> 0
       [] f[2] \in {"own", "security"} -> 2
       [] f[2] = "ht" -> 40 [] f[2] = "vht" -> 80
       [] f = <<"second", "ssid">> -> 2
       [] OTHER -> 1]

(* The second network is to have the first one's name, or a new name and   *)
(* another security; the first is to be opened.                            *)
MCMutations ==
  {[kind |-> "rename", value |-> 2], [kind |-> "block"], [kind |-> "unblock"],
   [kind |-> "scalar", field |-> <<"router", "steering">>, value |-> 0],
   [kind |-> "width", value |-> 20],
   [kind |-> "network", ssid |-> 2, set |-> [ssid |-> 1]],
   [kind |-> "network", ssid |-> 2, set |-> [ssid |-> 3, hidden |-> 0]],
   [kind |-> "network", ssid |-> 1, set |-> [security |-> Open]]}

(* The app adds a schedule, hides a secret, or takes the new name for the  *)
(* first network.                                                          *)
MCAppWrites ==
  {[field |-> User, value |-> 1],
   [field |-> <<"first", "password">>, value |-> 0],
   [field |-> <<"first", "ssid">>, value |-> 3]}

MCSymmetry == Permutations(Requests)
=============================================================================
