SPECIFICATION Spec
CONSTANTS
    None = None
    c1 = c1
    c2 = c2
    Calls = {c1, c2}
    Tokens = {"gas", "dai"}
    MaxBalance = 1
SYMMETRY SameCalls
INVARIANTS
    NamedAssetMoves
    BalanceIsOfNamedAsset
    AddressesAgree
    EstimateIsOfTheDeposit
\* All calls end and the account is full.
CHECK_DEADLOCK FALSE
