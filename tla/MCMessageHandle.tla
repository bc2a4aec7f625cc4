--------------------------- MODULE MCMessageHandle --------------------------
EXTENDS MessageHandle

Lock == <<1>>

Mess(type, body) ==
    [group_name |-> <<>>, mess_type |-> type, send_host_name |-> <<7>>,
     recive_host_name |-> <<>>, message |-> body]

\* Two bodies tell lost, doubled and overtaken messages apart; the empty one
\* makes the shortest message.  The type is unknown until InsertEntry.
MCEventMessages == {Mess(Lock, <<>>), Mess(Lock, <<9>>)}
MCMessages == {init_buffer_str(e) : e \in MCEventMessages}
MCConfigured == {Lock}
MCBlockSizes == {-1, 0, 7}
=============================================================================
