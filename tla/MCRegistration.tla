---------------------------- MODULE MCRegistration ----------------------------
(* Instances of Registration for TLC.                                      *)
EXTENDS Registration

NodeAndReceiver == <<"node", "receiver">>

Instance(url, pri) == [url |-> url, pri |-> pri]

(* Both registries, under both service names, the better one listed last   *)
(* and one instance without an address; then r2 without its TXT record;    *)
(* then nothing.                                                           *)
MCDirectories ==
    {<<Instance("r2", 20), Instance(NoUrl, 0), Instance("r1", 10), Instance("r2", 20)>>,
     <<Instance("r2", NoTxt), Instance("r1", 10)>>,
     <<>>}
===============================================================================
