CONSTANTS
    d1 = d1
    d2 = d2
    m1 = m1
    m2 = m2
    m3 = m3
    Databases = {d1, d2}
    Migrations = {m1, m2, m3}
    MigrationsOf <- TwoDatabases
    Admin = root
    Strangers = {}
    MaxPasswords = 2
    MaxFailures = 0
    MaxRestores = 0
SPECIFICATION ServerSpec
PROPERTY ActiveCredentialsKept
