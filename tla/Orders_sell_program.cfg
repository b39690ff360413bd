SPECIFICATION Spec
CONSTANTS
    Wallets = {w1}
    Stranger = s
    Me = me
    None = None
    EntryModes = {"smart_sell"}
    Hidden <- MCHidden
    Wrong <- MCWrong
    Mints <- MCMints
    Curves <- MCCurves
    TargetTokens = 9
    TargetSol = 2
    BuyLamports = 2
    BuySlippage = 1000
    SellSlippage = 2500
    Holdings = {3, 7}
    U64 = 100000
    MAX_RAW_SUPPLY = 30
    TARGET_V_SOL = 3
INVARIANT ProgramIsMints
