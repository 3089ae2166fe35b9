SPECIFICATION CredentialsSpec
CONSTANTS
    RawProfiles <- SomeProfiles
    Secrets <- TwoSecrets
CHECK_DEADLOCK FALSE
INVARIANTS
    CertificatesStay
