--------------------------- MODULE MCRemoteClient ---------------------------
\* A small instance of RemoteClient for TLC: no key, a word, and a key of two
\* words that begins with it; a path, a level that is out of range and is left
\* so, and the two options whose names are mixed up.
EXTENDS OptionsReplica

CONSTANTS v1, v2

MCKeys == {<<>>, <<"k">>, <<"k", "l">>}

NoKey == {<<>>}

MCDataOf ==
    [NotifyTransactions |-> {"yes", "no"}, NotifyOnDriverUnload |-> {},
     ConfigPath |-> {"path"}, SaveLogLevel |-> {}]

MCFiles ==
    {[NotifyTransactions |-> "no", NotifyOnDriverUnload |-> "no",
      ConfigPath |-> "old/", SaveLogLevel |-> "outOfRange"]}

=============================================================================
