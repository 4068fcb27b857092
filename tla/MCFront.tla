-------------------------------- MODULE MCFront --------------------------------
(* Front on small instances: one client of every kind; the .cfg files say which. *)
EXTENDS Front, TLC

Frames == <<"frag", "~", "ping", "~", "fin", "~", "zmsg", "~">>

SocksClients == {
    <<"v5", "offers", "login", "connect5", "addr", "get", "blank", "body">>,
    <<"v5", "offersNot", "connect5", "addr", "hello", "tls">>,
    <<"v5", "offers", "badLogin", "connect5", "addr", "hello">>,
    <<"v5", "offers", "login", "bind5", "addr">>,
    <<"v5", "offers", "connect5", "badAddr">>,
    <<"v4", "connect4", "user", "hello", "tls">>,
    <<"v4", "connect4a", "user", "name", "connect", "blank", "hello", "tls">>,
    <<"v4", "bind4", "user">> }

HttpClients == {
    <<"get", "field", "blank", "body", "body">>,
    <<"get", "field", "field", "field", "blank">>,
    <<"bad", "blank">>,
    <<"self", "blank">>,
    <<"connectSelf", "blank", "body">>,
    <<"connect", "blank", "hello", "tls">> }

RelayClients == {
    <<"upgrade", "blank">> \o Frames,
    <<"upgrade", "blank", "msg", "~", "zfrag", "~", "cont", "~", "fin", "~">> }

AllClients == SocksClients \cup HttpClients \cup RelayClients

AllOrigins == {
    <<"resp", "end">> \o Frames,
    <<"resp", "end", "ping", "~", "zfrag", "~", "cont", "~", "fin", "~">> }
=============================================================================
