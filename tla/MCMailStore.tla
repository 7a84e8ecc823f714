---------------------------- MODULE MCMailStore ----------------------------
(* MailStore with blocks of two bytes and XBLOCKs of two children, so that *)
(* payloads of 2, 4 and 5 bytes are a block, an XBLOCK and an XXBLOCK.     *)
EXTENDS MailStore

Mail(body, attachments) ==
  [kind |-> "item", body |-> body, attachments |-> attachments]

NullMessage == [kind |-> "null", body |-> <<>>, attachments |-> <<>>]
Misfit      == [kind |-> "misfit", body |-> <<>>, attachments |-> <<>>]

Plain        == Mail(<<>>, <<>>)
LongBody     == Mail(<<4>>, <<>>)
LongHeaders  == Mail(<<2, 7>>, <<>>)
SmallFiles   == Mail(<<>>, << <<>>, <<>> >>)
OneLargeFile == Mail(<<>>, << <<>>, <<5>> >>)

Sent(messages) == [parent |-> NID_IPM_SUBTREE, items |-> messages]

Lists ==
  {<<>>, <<Plain>>, <<NullMessage, LongBody>>, <<LongHeaders, OneLargeFile>>,
   <<SmallFiles, Plain, LongBody>>, <<Plain, Misfit>>,
   <<Plain, Plain, Plain, Plain>>}

MCConfigs ==
  {[omitRft |-> o, folders |-> fs] :
     o \in BOOLEAN,
     fs \in {<<>>} \cup {<<Sent(a)>> : a \in Lists}
            \cup {<<Sent(a), Sent(b)>> : a, b \in Lists}}
  \cup {[omitRft |-> FALSE, folders |-> [i \in 1..n |-> Sent(<<Plain>>)]] :
         n \in {3, 4}}

\* A long body with a large attachment beside it.
BodyAndFile == Mail(<<4>>, << <<5>> >>)

OneConfig(messages) == {[omitRft |-> FALSE, folders |-> <<Sent(messages)>>]}

CollidingConfig == OneConfig(<<BodyAndFile>>)

=============================================================================
