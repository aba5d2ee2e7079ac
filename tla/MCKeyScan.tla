------------------------------ MODULE MCKeyScan ------------------------------
(* Instances of KeyScan for TLC.                                           *)
EXTENDS KeyScan

\* A CSI u key, well-formed or not, after and before other input: every key that
\* differs from ctrl+\ in one or more fields, and two keys in a row.
Keys ==
    {<<ESC, LBRACKET>> \o key \o alt \o mod \o event \o text \o end :
        key \in {<<57, 50>>, <<57>>, <<57, 50, 51>>},
        alt \in {<<>>, <<COLON, 57>>},
        mod \in {<<>>, <<SEMI>>, <<SEMI, 53>>, <<SEMI, 54, 57>>, <<SEMI, 51>>},
        event \in {<<>>, <<COLON, 51>>, <<COLON, 49>>},
        text \in {<<>>, <<SEMI, 57, 50>>},
        end \in {<<>>, <<LOWER_U>>}}

Before == {<<>>, <<ESC>>, <<120, FS>>, <<ESC, LBRACKET, 57, 50, SEMI>>}

TypedKeys == {b \o key \o a : b \in Before, key \in Keys, a \in {<<>>, <<120>>}}

ASSUME PlainKeypresses
=============================================================================
