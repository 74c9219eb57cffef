SPECIFICATION Spec
CONSTANTS
    key = key
    otp = otp
    card = card
    Kinds = {key, otp, card}
    Lifetime <- MCLifetime
    InMemory = {key, otp}
    OneTimePassword = otp
    SecretTtl = 4
    RecoveryTtl = 2
INVARIANT OneTimePasswordsStayInMemory
