CONSTANTS
    d1 = d1
    d2 = d2
    m1 = m1
    m2 = m2
    m3 = m3
    Databases = {d1}
    Migrations = {m1, m2, m3}
    MigrationsOf <- OneDatabase
    Admin = root
    Strangers = {stranger}
    MaxPasswords = 3
    MaxFailures = 1
    MaxRestores = 1
SPECIFICATION ServerSpec
INVARIANTS ServerTypeOK WorkerInv
PROPERTIES SecretsStayOpen AdminKept
