------------------------------ MODULE MCParts ------------------------------
\* Instance of Parts for TLC.
EXTENDS Parts

MCMoments == [sec : 0 .. 3, usec : {0, 1, 7, 8}]
MCDstBegin == 89 * DAY + 2 * HOUR
MCDstEnd == 91 * DAY + 2 * HOUR
MCTimes == {MCDstBegin - DAY, MCDstBegin, MCDstEnd, MCDstEnd + 1234}
MCSteps == {HOUR \div 2, 5 * HOUR, -7 * HOUR}
MCFields == <<[pos |-> 1, len |-> 2], [pos |-> 3, len |-> 2], [pos |-> 5, len |-> 1]>>
MCNumbers == {<<"1">>, <<"2", "1">>}
MCIniLines ==
    {[sect |-> s, key |-> NONE, value |-> NONE] : s \in Sections}
    \cup {[sect |-> NONE, key |-> k, value |-> v] : k \in Keys, v \in Values}
    \cup {[sect |-> CHOOSE s \in Sections : TRUE, key |-> CHOOSE k \in Keys : TRUE, value |-> NONE],
          [sect |-> NONE, key |-> CHOOSE k \in Keys : TRUE, value |-> NONE]}
MCEntries == [ino : {1, 2}, kind : DOMAIN ModeBits]
MCSource == [p \in Movers |-> <<"from", p>>]
MCTarget == [p \in Movers |-> <<"to", p>>]
MCNumber == CHOOSE f \in [Movers -> 1 .. MaxInode] : \A p, q \in Movers : p # q => f[p] # f[q]
MCChunks == Movers \X {1, 2}
MCContent == [p \in Movers |-> IF MCNumber[p] = 1 THEN <<<<p, 1>>, <<p, 2>>>> ELSE <<<<p, 1>>>>]
MCOld == <<<<"old", 1>>>>
MCTexts == {<<"a", "b">>, <<"a">>}
ProcessSymmetry == Permutations(Threads) \cup Permutations(Pids)
=============================================================================
