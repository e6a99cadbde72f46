------------------------------- MODULE MCTls --------------------------------
EXTENDS Tls

\* Records behind each other, the server's orderly end, a broken record, and a
\* server that only listens.
MCStreams == {<<"d1", "d2">>, <<"d1", "close">>, <<"d1", "bad">>, <<>>}
MCChunks  == <<"w1", "w2">>
=============================================================================
