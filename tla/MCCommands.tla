----------------------------- MODULE MCCommands ----------------------------
(* Commands for TLC: every kind of line, names on both sides of the limit, a
   name that spells a command, numbers whose parts are numbers, and a line that
   does not fit the buffer with the one before it. *)
EXTENDS Commands

Assign(a, x) == [do |-> "assign", attr |-> a, to |-> x, reply |-> "+OK"]
Refuse(r)       == [do |-> "none", attr |-> "", to |-> 0, reply |-> r]
Show(a)         == [do |-> "show", attr |-> a, to |-> 0, reply |-> ""]
Do(d, r)        == [do |-> d, attr |-> "", to |-> 0, reply |-> r]
SetName(v)      == <<"SET", "CHANNEL", "NAME", "=", Quote>> \o v \o <<Quote>>
SetDelay(v)     == <<"SET", "CHANNEL", "DELAY", "=">> \o v

MCMeaning ==
    (SetName(<<"RESET", "x">>) :> Assign("NAME", <<"RESET", "x">>)) @@
    (SetName(<<"wide", "x">>)  :> Refuse("-ERR ATTR TOO LONG")) @@
    (SetName(<<"wide", "x", "x">>) :> Refuse("-ERR ATTR TOO LONG")) @@
    (SetName(<<"wide">>)       :> Assign("NAME", <<"wide">>)) @@
    (SetName(<<"x", "-", "x">>) :> Refuse("-ERR INVALID ASSIGNMENT")) @@
    (SetDelay(<<"-", "1", "0">>) :> Assign("DELAY", -10)) @@
    (SetDelay(<<"0", "1", "7">>) :> Assign("DELAY", 15)) @@
    (SetDelay(<<"0", "x", "1", "2">>) :> Assign("DELAY", 18)) @@
    (<<"SET", "CHANNELS", "=", "2">> :> Refuse("-ERR ATTR NOT FOUND")) @@
    (<<"GET", "CHANNELS">>         :> Refuse("-ERR ATTR NOT FOUND")) @@
    (<<"SET", "CHANNEL", "DELAYS", "=", "2">> :> Assign("DELAY", 2)) @@
    (SetDelay(<<Quote, "x", Quote>>)          :> Refuse("-ERR ATTR UNKNOWN TYPE")) @@
    (<<"SET", "CHANNEL", "TYPE", "=", "2">>   :> Refuse("-ERR ATTR NOT FOUND")) @@
    (<<"SET", "BOARD", "TYPE", "=", Quote, "x", Quote>> :> Refuse("-ERR ATTR READ ONLY")) @@
    (<<"SET", "SET">>              :> Refuse("-ERR OBJECT NOT FOUND")) @@
    (<<"GET", "CHANNEL", "DELAY">> :> Show("DELAY")) @@
    (<<"GET", "CHANNEL", "NAME">>  :> Show("NAME")) @@
    (<<"GET", "CHANNEL">>          :> Refuse("+NAME, DELAY, ")) @@
    (<<"GET", "BOARD">>            :> Refuse("+TYPE, ")) @@
    (<<"GET", "BOARD", "TYPE">>    :> Show("TYPE")) @@
    (<<"GET", "BOARD", "NAME">>    :> Refuse("-ERR ATTR NOT FOUND")) @@
    (<<"GETS", "BOARD">>           :> Refuse("-ERR OBJECT NOT FOUND")) @@
    (<<"RESETS">>  :> Do("reset", "+OK")) @@
    (<<"START">>   :> Do("start", "")) @@
    (<<"STOP">>    :> Do("stop", "+OK")) @@
    (<<"PING">>    :> Do("none", "+PONG")) @@
    (<<"HELLO">>   :> Do("none", ""))

MCLines  == DOMAIN MCMeaning
MCLonger == ("RESETS" :> "RESET") @@ ("GETS" :> "GET") @@ ("DELAYS" :> "DELAY") @@ ("CHANNELS" :> "CHANNEL")
MCWidth  == [t \in Tokens |-> IF t = "wide" THEN 30 ELSE Len(t)]
MCBoardType == <<"ADC">>
=============================================================================
