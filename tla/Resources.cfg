\* Tokens of two units, so that a refill may end between two tokens.
SPECIFICATION SuiteSpec
CONSTANTS
    One = 2
    Rates = {1, 3}
    Bursts = {1, 2}
    MaxN = 2
    Second = 2
    MaxTime = 2
    MaxYield = 4
    MaxAsked = 3
    Callers = {t1, t2, t3}
    Evaluators = {e1, e2}
SYMMETRY Symmetry
INVARIANTS TypeOK AdmissionBound LimitersOwned OneHolder CleanHandover UsageSettles HistoryKeepsLatest CountsFollowHistory RateLimitHolds SuppressionHolds
PROPERTIES EarnedTokenIsGranted FindsLatest
