SPECIFICATION Spec
CONSTANTS
    f1 = f1
    f2 = f2
    r1 = r1
    r2 = r2
    s1 = s1
    s2 = s2
    Forward = {f1, f2}
    Reverse = {r1, r2}
    Swaps = {s1, s2}
    Books <- MCBooks
    Amount <- MCAmount
    Vault = 2
    Wallet = 2
CHECK_DEADLOCK FALSE
INVARIANT VaultSolvent
INVARIANT WalletSolvent
