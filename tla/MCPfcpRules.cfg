INIT RulesInit
NEXT RulesNext
INVARIANT ParseMatchesReference
INVARIANT RulesReachUP
